---- MODULE Spec2Model ----
(***************************************************************************)
(* Max Walker Cricket Game: the match engine (class Match of               *)
(* src/max_walker_cricket_game.py) as a state machine.                     *)
(*                                                                         *)
(* The fields of the Match object and of its Player objects are the        *)
(* variables.  Each method is an operator from a record of all fields to   *)
(* the record after the call, so that a handler which calls other methods  *)
(* (start_over -> end_innings -> offer_follow_on_if_available, ...) is one  *)
(* composed step.  start_over is split at its ball loop: StartOver is the  *)
(* code before the loop, Ball is one iteration of the loop, and the        *)
(* iteration that leaves the loop also runs the code after it.             *)
(***************************************************************************)
EXTENDS Integers, Sequences, FiniteSets, TLC

\* ------------------------------------------------------- program constants
TeamSize == 11
DAY_OVERS == 16
MAX_DAYS == 5
overs_per_session == 8
follow_on_threshold == 200
max_overs_per_bowler_session == 2
max_overs_per_bowler_day == 4
BallsPerOver == 6

\* ------------------------------------------------------------------ bounds
\* Bowlers the caller picks from: the first NumBowlers players of the bowling side.
NumBowlers == 2
\* The same in SpecWork: the fewest bowlers that can bowl a whole session.
NumBowlersWork == overs_per_session \div max_overs_per_bowler_session
\* Spec: overs accepted in one match.
MaxOvers == 1
\* Spec: runs of one innings.
MaxRuns == 3
\* Spec and SpecWickets: batters waiting to return after retiring hurt.
MaxRetired == 1
\* SpecWork: overs accepted in one match.
MaxOversWork == 11
\* SpecFollowOn: how many equal balls in a row one step may apply.
Burst == follow_on_threshold
\* SpecFollowOn: overs accepted in one match.
MaxOversFollowOn == 2
\* SpecWickets: overs accepted in one match.
MaxOversWickets == 2
\* SpecWickets: runs of one innings.
MaxRunsWickets == 2
\* SpecFollowOn: runs of one innings scored one ball at a time, before or after
\* a burst.
MaxSingles == 2
\* SpecDays: overs accepted in one match.
MaxOversDays == 8
\* SpecDice: overs accepted in one match.
MaxOversDice == 1
\* SpecDice: runs of one innings.
MaxRunsDice == 4
\* SpecReturns: overs a match may see (a day of 8 and one more), and batters
\* who may be retired hurt at a time.
MaxOversReturns == 9
MaxRetiredReturns == 3
\* SpecPlayback: overs accepted in one match, and chunks one replay shows.
MaxOversPlayback == 3
MaxChunks == 3
\* SpecMilestones: overs accepted in one match (three in each of two innings of
\* a side), and runs of one innings (three overs of sixes).
MaxOversMilestones == 6
MaxRunsMilestones == 108
\* SpecConditions: overs accepted in one match (past the ninth over of a day).
MaxOversConditions == 9

Teams == {1, 2}
Player == Teams \X (1..TeamSize)
NoPlayer == <<0, 0>>
team(t) == [i \in 1..TeamSize |-> <<t, i>>]
TeamOf(p) == p[1]
Members(t) == {<<t, i>> : i \in 1..TeamSize}

LOOSE_BALL_CARDS ==
  << [text |-> "Quick single - run out at bowler's end",
      out |-> "striker", method |-> "Run Out", batsman_runs |-> 0, bowler_runs |-> 0, extras_runs |-> 0, score_inc |-> 2,
      extra_ball |-> FALSE, no_ball |-> FALSE, retired_hurt |-> FALSE,
      text_no_ball |-> FALSE, text_bye |-> FALSE, text_leg_bye |-> FALSE, text_bowler |-> TRUE],
     [text |-> "Wicketkeeper fails to take ball - 2 byes",
      out |-> "", method |-> "", batsman_runs |-> 0, bowler_runs |-> 0, extras_runs |-> 2, score_inc |-> 2,
      extra_ball |-> FALSE, no_ball |-> FALSE, retired_hurt |-> FALSE,
      text_no_ball |-> FALSE, text_bye |-> TRUE, text_leg_bye |-> FALSE, text_bowler |-> FALSE],
     [text |-> "Wicketkeeper fails to take ball - 4 byes",
      out |-> "", method |-> "", batsman_runs |-> 0, bowler_runs |-> 0, extras_runs |-> 4, score_inc |-> 4,
      extra_ball |-> FALSE, no_ball |-> FALSE, retired_hurt |-> FALSE,
      text_no_ball |-> FALSE, text_bye |-> TRUE, text_leg_bye |-> FALSE, text_bowler |-> FALSE],
     [text |-> "Bouncer edged to slips - caught",
      out |-> "striker", method |-> "Caught", batsman_runs |-> 0, bowler_runs |-> 0, extras_runs |-> 0, score_inc |-> 0,
      extra_ball |-> FALSE, no_ball |-> FALSE, retired_hurt |-> FALSE,
      text_no_ball |-> FALSE, text_bye |-> FALSE, text_leg_bye |-> FALSE, text_bowler |-> FALSE],
     [text |-> "No ball",
      out |-> "", method |-> "", batsman_runs |-> 0, bowler_runs |-> 1, extras_runs |-> 1, score_inc |-> 1,
      extra_ball |-> TRUE, no_ball |-> FALSE, retired_hurt |-> FALSE,
      text_no_ball |-> TRUE, text_bye |-> FALSE, text_leg_bye |-> FALSE, text_bowler |-> FALSE],
     [text |-> "Batsman attempting 3rd run - run out 2 runs",
      out |-> "striker", method |-> "Run Out", batsman_runs |-> 2, bowler_runs |-> 2, extras_runs |-> 0, score_inc |-> 2,
      extra_ball |-> FALSE, no_ball |-> FALSE, retired_hurt |-> FALSE,
      text_no_ball |-> FALSE, text_bye |-> FALSE, text_leg_bye |-> FALSE, text_bowler |-> FALSE],
     [text |-> "Leg glance mistimed - caught",
      out |-> "striker", method |-> "Caught", batsman_runs |-> 0, bowler_runs |-> 0, extras_runs |-> 0, score_inc |-> 0,
      extra_ball |-> FALSE, no_ball |-> FALSE, retired_hurt |-> FALSE,
      text_no_ball |-> FALSE, text_bye |-> FALSE, text_leg_bye |-> FALSE, text_bowler |-> FALSE],
     [text |-> "Poor return to wicketkeeper - 2 overthrows",
      out |-> "", method |-> "", batsman_runs |-> 2, bowler_runs |-> 2, extras_runs |-> 0, score_inc |-> 2,
      extra_ball |-> FALSE, no_ball |-> FALSE, retired_hurt |-> FALSE,
      text_no_ball |-> FALSE, text_bye |-> FALSE, text_leg_bye |-> FALSE, text_bowler |-> FALSE],
     [text |-> "Hook shot - catch dropped, 2 runs",
      out |-> "", method |-> "", batsman_runs |-> 2, bowler_runs |-> 2, extras_runs |-> 0, score_inc |-> 2,
      extra_ball |-> FALSE, no_ball |-> FALSE, retired_hurt |-> FALSE,
      text_no_ball |-> FALSE, text_bye |-> FALSE, text_leg_bye |-> FALSE, text_bowler |-> FALSE],
     [text |-> "Batsman hit by bouncer - retired hurt",
      out |-> "", method |-> "", batsman_runs |-> 0, bowler_runs |-> 0, extras_runs |-> 0, score_inc |-> 0,
      extra_ball |-> FALSE, no_ball |-> FALSE, retired_hurt |-> TRUE,
      text_no_ball |-> FALSE, text_bye |-> FALSE, text_leg_bye |-> FALSE, text_bowler |-> FALSE],
     [text |-> "Leg glance - 4 leg byes",
      out |-> "", method |-> "", batsman_runs |-> 0, bowler_runs |-> 0, extras_runs |-> 4, score_inc |-> 4,
      extra_ball |-> FALSE, no_ball |-> FALSE, retired_hurt |-> FALSE,
      text_no_ball |-> FALSE, text_bye |-> TRUE, text_leg_bye |-> TRUE, text_bowler |-> FALSE],
     [text |-> "Leg glance - 4 runs",
      out |-> "", method |-> "", batsman_runs |-> 4, bowler_runs |-> 4, extras_runs |-> 0, score_inc |-> 4,
      extra_ball |-> FALSE, no_ball |-> FALSE, retired_hurt |-> FALSE,
      text_no_ball |-> FALSE, text_bye |-> FALSE, text_leg_bye |-> FALSE, text_bowler |-> FALSE],
     [text |-> "Bouncer edged to wicketkeeper - caught",
      out |-> "striker", method |-> "Caught", batsman_runs |-> 0, bowler_runs |-> 0, extras_runs |-> 0, score_inc |-> 0,
      extra_ball |-> FALSE, no_ball |-> FALSE, retired_hurt |-> FALSE,
      text_no_ball |-> FALSE, text_bye |-> FALSE, text_leg_bye |-> FALSE, text_bowler |-> FALSE],
     [text |-> "Hook shot - 6 runs",
      out |-> "", method |-> "", batsman_runs |-> 6, bowler_runs |-> 6, extras_runs |-> 0, score_inc |-> 6,
      extra_ball |-> FALSE, no_ball |-> FALSE, retired_hurt |-> FALSE,
      text_no_ball |-> FALSE, text_bye |-> FALSE, text_leg_bye |-> FALSE, text_bowler |-> FALSE],
     [text |-> "Bouncer edged - catch dropped",
      out |-> "", method |-> "", batsman_runs |-> 0, bowler_runs |-> 0, extras_runs |-> 0, score_inc |-> 0,
      extra_ball |-> FALSE, no_ball |-> FALSE, retired_hurt |-> FALSE,
      text_no_ball |-> FALSE, text_bye |-> FALSE, text_leg_bye |-> FALSE, text_bowler |-> FALSE],
     [text |-> "Silly mid-on - catch dropped",
      out |-> "", method |-> "", batsman_runs |-> 0, bowler_runs |-> 0, extras_runs |-> 0, score_inc |-> 0,
      extra_ball |-> FALSE, no_ball |-> FALSE, retired_hurt |-> FALSE,
      text_no_ball |-> FALSE, text_bye |-> FALSE, text_leg_bye |-> FALSE, text_bowler |-> FALSE],
     [text |-> "Edged through slips - 4 runs",
      out |-> "", method |-> "", batsman_runs |-> 4, bowler_runs |-> 4, extras_runs |-> 0, score_inc |-> 4,
      extra_ball |-> FALSE, no_ball |-> FALSE, retired_hurt |-> FALSE,
      text_no_ball |-> FALSE, text_bye |-> FALSE, text_leg_bye |-> FALSE, text_bowler |-> FALSE],
     [text |-> "Edged to wicketkeeper - caught",
      out |-> "striker", method |-> "Caught", batsman_runs |-> 0, bowler_runs |-> 0, extras_runs |-> 0, score_inc |-> 0,
      extra_ball |-> FALSE, no_ball |-> FALSE, retired_hurt |-> FALSE,
      text_no_ball |-> FALSE, text_bye |-> FALSE, text_leg_bye |-> FALSE, text_bowler |-> FALSE],
     [text |-> "Ball keeps low - LBW",
      out |-> "striker", method |-> "LBW", batsman_runs |-> 0, bowler_runs |-> 0, extras_runs |-> 0, score_inc |-> 0,
      extra_ball |-> FALSE, no_ball |-> FALSE, retired_hurt |-> FALSE,
      text_no_ball |-> FALSE, text_bye |-> FALSE, text_leg_bye |-> FALSE, text_bowler |-> FALSE],
     [text |-> "Silly mid-on - caught",
      out |-> "striker", method |-> "Caught", batsman_runs |-> 0, bowler_runs |-> 0, extras_runs |-> 0, score_inc |-> 0,
      extra_ball |-> FALSE, no_ball |-> FALSE, retired_hurt |-> FALSE,
      text_no_ball |-> FALSE, text_bye |-> FALSE, text_leg_bye |-> FALSE, text_bowler |-> FALSE] >>

MATCH_CONDITION_TEMPLATES ==
  << [weight |-> 28, overs_lost_start |-> 0, overs_lost_end |-> 0, no_play |-> FALSE,
      phases |-> << [start |-> 1, end |-> 16, bat |-> 0, bowl |-> 0] >>],
     [weight |-> 1, overs_lost_start |-> 0, overs_lost_end |-> 0, no_play |-> FALSE,
      phases |-> << [start |-> 1, end |-> 8, bat |-> 0, bowl |-> 0], [start |-> 9, end |-> 16, bat |-> -1, bowl |-> 0] >>],
     [weight |-> 1, overs_lost_start |-> 0, overs_lost_end |-> 0, no_play |-> FALSE,
      phases |-> << [start |-> 1, end |-> 8, bat |-> 0, bowl |-> 0], [start |-> 9, end |-> 16, bat |-> -1, bowl |-> 0] >>],
     [weight |-> 1, overs_lost_start |-> 0, overs_lost_end |-> 0, no_play |-> FALSE,
      phases |-> << [start |-> 1, end |-> 5, bat |-> -1, bowl |-> 0], [start |-> 6, end |-> 16, bat |-> 0, bowl |-> 0] >>],
     [weight |-> 1, overs_lost_start |-> 16, overs_lost_end |-> 0, no_play |-> TRUE,
      phases |-> <<  >>],
     [weight |-> 1, overs_lost_start |-> 16, overs_lost_end |-> 0, no_play |-> TRUE,
      phases |-> <<  >>],
     [weight |-> 1, overs_lost_start |-> 0, overs_lost_end |-> 0, no_play |-> FALSE,
      phases |-> << [start |-> 1, end |-> 16, bat |-> 0, bowl |-> -1] >>],
     [weight |-> 1, overs_lost_start |-> 0, overs_lost_end |-> 0, no_play |-> FALSE,
      phases |-> << [start |-> 1, end |-> 10, bat |-> -1, bowl |-> 0], [start |-> 11, end |-> 16, bat |-> 0, bowl |-> 0] >>],
     [weight |-> 1, overs_lost_start |-> 8, overs_lost_end |-> 0, no_play |-> FALSE,
      phases |-> << [start |-> 1, end |-> 16, bat |-> -1, bowl |-> 0] >>],
     [weight |-> 1, overs_lost_start |-> 0, overs_lost_end |-> 0, no_play |-> FALSE,
      phases |-> << [start |-> 1, end |-> 12, bat |-> 0, bowl |-> 0], [start |-> 13, end |-> 16, bat |-> 0, bowl |-> -1] >>],
     [weight |-> 1, overs_lost_start |-> 0, overs_lost_end |-> 3, no_play |-> FALSE,
      phases |-> << [start |-> 1, end |-> 16, bat |-> 0, bowl |-> 0] >>],
     [weight |-> 2, overs_lost_start |-> 0, overs_lost_end |-> 0, no_play |-> FALSE,
      phases |-> << [start |-> 1, end |-> 16, bat |-> 0, bowl |-> -1] >>],
     [weight |-> 1, overs_lost_start |-> 0, overs_lost_end |-> 0, no_play |-> FALSE,
      phases |-> << [start |-> 1, end |-> 8, bat |-> 0, bowl |-> 0], [start |-> 9, end |-> 16, bat |-> 0, bowl |-> -1] >>],
     [weight |-> 1, overs_lost_start |-> 0, overs_lost_end |-> 0, no_play |-> FALSE,
      phases |-> << [start |-> 1, end |-> 16, bat |-> -1, bowl |-> 0] >>],
     [weight |-> 1, overs_lost_start |-> 5, overs_lost_end |-> 0, no_play |-> FALSE,
      phases |-> << [start |-> 1, end |-> 16, bat |-> 0, bowl |-> 0] >>],
     [weight |-> 1, overs_lost_start |-> 0, overs_lost_end |-> 0, no_play |-> FALSE,
      phases |-> << [start |-> 1, end |-> 16, bat |-> -1, bowl |-> 0] >>],
     [weight |-> 1, overs_lost_start |-> 0, overs_lost_end |-> 0, no_play |-> FALSE,
      phases |-> << [start |-> 1, end |-> 8, bat |-> 0, bowl |-> 0], [start |-> 9, end |-> 16, bat |-> 0, bowl |-> -1] >>],
     [weight |-> 1, overs_lost_start |-> 0, overs_lost_end |-> 0, no_play |-> FALSE,
      phases |-> << [start |-> 1, end |-> 16, bat |-> -1, bowl |-> 0] >>],
     [weight |-> 1, overs_lost_start |-> 8, overs_lost_end |-> 0, no_play |-> FALSE,
      phases |-> << [start |-> 1, end |-> 16, bat |-> 0, bowl |-> 0] >>],
     [weight |-> 1, overs_lost_start |-> 0, overs_lost_end |-> 0, no_play |-> FALSE,
      phases |-> << [start |-> 1, end |-> 12, bat |-> 0, bowl |-> 0], [start |-> 13, end |-> 16, bat |-> -1, bowl |-> 0] >>],
     [weight |-> 1, overs_lost_start |-> 0, overs_lost_end |-> 0, no_play |-> FALSE,
      phases |-> << [start |-> 1, end |-> 16, bat |-> 0, bowl |-> -1] >>],
     [weight |-> 1, overs_lost_start |-> 0, overs_lost_end |-> 0, no_play |-> FALSE,
      phases |-> << [start |-> 1, end |-> 8, bat |-> 0, bowl |-> 0], [start |-> 9, end |-> 16, bat |-> 0, bowl |-> -1] >>],
     [weight |-> 1, overs_lost_start |-> 16, overs_lost_end |-> 0, no_play |-> TRUE,
      phases |-> <<  >>],
     [weight |-> 1, overs_lost_start |-> 16, overs_lost_end |-> 0, no_play |-> TRUE,
      phases |-> <<  >>],
     [weight |-> 1, overs_lost_start |-> 16, overs_lost_end |-> 0, no_play |-> TRUE,
      phases |-> <<  >>],
     [weight |-> 1, overs_lost_start |-> 5, overs_lost_end |-> 0, no_play |-> FALSE,
      phases |-> << [start |-> 1, end |-> 5, bat |-> -1, bowl |-> 0], [start |-> 6, end |-> 16, bat |-> 0, bowl |-> 0] >>],
     [weight |-> 1, overs_lost_start |-> 0, overs_lost_end |-> 0, no_play |-> FALSE,
      phases |-> << [start |-> 1, end |-> 16, bat |-> -1, bowl |-> 0] >>],
     [weight |-> 1, overs_lost_start |-> 0, overs_lost_end |-> 0, no_play |-> FALSE,
      phases |-> << [start |-> 1, end |-> 8, bat |-> 0, bowl |-> 0], [start |-> 9, end |-> 16, bat |-> 0, bowl |-> -1] >>] >>

\* ------------------------------------------------------------------- state
VARIABLES
  innings, runs, wickets_taken, overs_completed,
  session_overs_completed, session_number, limits_session_number,
  last_bowler, current_batsmen, next_batsman_index, bowler,
  bowler_overs_session, bowler_overs_today,
  match_over, result_summary,
  extras, extras_nb, extras_b, extras_lb,
  innings_summaries, innings_batting_team, follow_on_enforced,
  current_over_legal_balls,
  retired_hurt_pending, retired_hurt_returning, retired_hurt_priority,
  day_counter, current_day, day_overs_scheduled, overs_in_day,
  day_no_play, day_overs_lost_start, day_overs_lost_end,
  current_conditions,     \* the card of the day
  innings_declared,
  hattrick_count, hattrick_pending_bowler,
  last_ball_was_bowler_wicket, last_wicket_bowler,
  match_output,   \* the hat-trick lines the latest ball wrote to gui.match_output
  p_runs,
  p_wickets,      \* Player.wickets of every player
  fow,
  milestones_awarded,     \* Match._milestones_awarded, by the text of the milestone
  milestone_said,         \* the milestone the latest ball wrote to gui.match_output
  ball_by_ball_playing,   \* CricketGUI._ball_by_ball_playing
  playback_idx,   \* idx of the pending _play_ball_by_ball call
  pc, ball,
  follow_on_asked, over_log

vars ==
  << innings, runs, wickets_taken, overs_completed,
     session_overs_completed, session_number, limits_session_number,
     last_bowler, current_batsmen, next_batsman_index, bowler,
     bowler_overs_session, bowler_overs_today,
     match_over, result_summary,
     extras, extras_nb, extras_b, extras_lb,
     innings_summaries, innings_batting_team, follow_on_enforced,
     current_over_legal_balls,
     retired_hurt_pending, retired_hurt_returning, retired_hurt_priority,
     day_counter, current_day, day_overs_scheduled, overs_in_day,
     day_no_play, day_overs_lost_start, day_overs_lost_end,
     current_conditions,
     innings_declared,
     hattrick_count, hattrick_pending_bowler,
     last_ball_was_bowler_wicket, last_wicket_bowler,
     match_output,
     p_runs, p_wickets, fow, milestones_awarded, milestone_said,
     ball_by_ball_playing, playback_idx,
     pc, ball,
     follow_on_asked, over_log >>

\* The Match object (and the runs of its Player objects) as one record.
Self ==
  [ innings |-> innings, runs |-> runs, wickets_taken |-> wickets_taken,
    overs_completed |-> overs_completed,
    session_overs_completed |-> session_overs_completed,
    session_number |-> session_number,
    limits_session_number |-> limits_session_number,
    last_bowler |-> last_bowler, current_batsmen |-> current_batsmen,
    next_batsman_index |-> next_batsman_index, bowler |-> bowler,
    bowler_overs_session |-> bowler_overs_session,
    bowler_overs_today |-> bowler_overs_today,
    match_over |-> match_over, result_summary |-> result_summary,
    extras |-> extras, extras_nb |-> extras_nb, extras_b |-> extras_b,
    extras_lb |-> extras_lb,
    innings_summaries |-> innings_summaries,
    innings_batting_team |-> innings_batting_team,
    follow_on_enforced |-> follow_on_enforced,
    current_over_legal_balls |-> current_over_legal_balls,
    retired_hurt_pending |-> retired_hurt_pending,
    retired_hurt_returning |-> retired_hurt_returning,
    retired_hurt_priority |-> retired_hurt_priority,
    day_counter |-> day_counter, current_day |-> current_day,
    day_overs_scheduled |-> day_overs_scheduled, overs_in_day |-> overs_in_day,
    day_no_play |-> day_no_play, day_overs_lost_start |-> day_overs_lost_start,
    day_overs_lost_end |-> day_overs_lost_end,
    current_conditions |-> current_conditions,
    innings_declared |-> innings_declared,
    hattrick_count |-> hattrick_count,
    hattrick_pending_bowler |-> hattrick_pending_bowler,
    last_ball_was_bowler_wicket |-> last_ball_was_bowler_wicket,
    last_wicket_bowler |-> last_wicket_bowler,
    match_output |-> match_output,
    p_runs |-> p_runs, p_wickets |-> p_wickets, fow |-> fow,
    milestones_awarded |-> milestones_awarded, milestone_said |-> milestone_said,
    ball_by_ball_playing |-> ball_by_ball_playing, playback_idx |-> playback_idx,
    pc |-> pc, ball |-> ball,
    follow_on_asked |-> follow_on_asked, over_log |-> over_log ]

Store(t) ==
  /\ innings' = t.innings /\ runs' = t.runs /\ wickets_taken' = t.wickets_taken
  /\ overs_completed' = t.overs_completed
  /\ session_overs_completed' = t.session_overs_completed
  /\ session_number' = t.session_number
  /\ limits_session_number' = t.limits_session_number
  /\ last_bowler' = t.last_bowler /\ current_batsmen' = t.current_batsmen
  /\ next_batsman_index' = t.next_batsman_index /\ bowler' = t.bowler
  /\ bowler_overs_session' = t.bowler_overs_session
  /\ bowler_overs_today' = t.bowler_overs_today
  /\ match_over' = t.match_over /\ result_summary' = t.result_summary
  /\ extras' = t.extras /\ extras_nb' = t.extras_nb /\ extras_b' = t.extras_b
  /\ extras_lb' = t.extras_lb
  /\ innings_summaries' = t.innings_summaries
  /\ innings_batting_team' = t.innings_batting_team
  /\ follow_on_enforced' = t.follow_on_enforced
  /\ current_over_legal_balls' = t.current_over_legal_balls
  /\ retired_hurt_pending' = t.retired_hurt_pending
  /\ retired_hurt_returning' = t.retired_hurt_returning
  /\ retired_hurt_priority' = t.retired_hurt_priority
  /\ day_counter' = t.day_counter /\ current_day' = t.current_day
  /\ day_overs_scheduled' = t.day_overs_scheduled /\ overs_in_day' = t.overs_in_day
  /\ day_no_play' = t.day_no_play /\ day_overs_lost_start' = t.day_overs_lost_start
  /\ day_overs_lost_end' = t.day_overs_lost_end
  /\ current_conditions' = t.current_conditions
  /\ innings_declared' = t.innings_declared
  /\ hattrick_count' = t.hattrick_count
  /\ hattrick_pending_bowler' = t.hattrick_pending_bowler
  /\ last_ball_was_bowler_wicket' = t.last_ball_was_bowler_wicket
  /\ last_wicket_bowler' = t.last_wicket_bowler
  /\ match_output' = t.match_output
  /\ p_runs' = t.p_runs /\ p_wickets' = t.p_wickets /\ fow' = t.fow
  /\ milestones_awarded' = t.milestones_awarded
  /\ milestone_said' = t.milestone_said
  /\ ball_by_ball_playing' = t.ball_by_ball_playing
  /\ playback_idx' = t.playback_idx
  /\ pc' = t.pc /\ ball' = t.ball
  /\ follow_on_asked' = t.follow_on_asked /\ over_log' = t.over_log

\* ----------------------------------------------------------------- helpers
Max(a, b) == IF a >= b THEN a ELSE b

\* dict.get(k, d)
Get(f, k, d) == IF k \in DOMAIN f THEN f[k] ELSE d

\* f[k] = v on a dict, adding the key when it is new
Put(f, k, v) == [x \in DOMAIN f \cup {k} |-> IF x = k THEN v ELSE f[x]]

\* dict.setdefault(k, d)
SetDefault(f, k, d) == IF k \in DOMAIN f THEN f ELSE Put(f, k, d)

InSeq(p, q) == \E i \in 1..Len(q) : q[i] = p

RECURSIVE SumSeq(_)
SumSeq(q) == IF q = <<>> THEN 0 ELSE Head(q) + SumSeq(Tail(q))

NoResult == [type |-> "none", winner |-> 0, margin_kind |-> "", margin |-> 0]
Draw == [type |-> "draw", winner |-> 0, margin_kind |-> "", margin |-> 0]
Tie == [type |-> "tie", winner |-> 0, margin_kind |-> "", margin |-> 0]
Win(w, kind, n) == [type |-> "win", winner |-> w, margin_kind |-> kind, margin |-> n]

\* ------------------------------------------------------ Match: team lookup
batting_team_id(s) ==
  Get(s.innings_batting_team, s.innings, IF s.innings \in {1, 3} THEN 1 ELSE 2)

bowling_team_id(s) == IF batting_team_id(s) = 1 THEN 2 ELSE 1

ZeroLimits(t) == [p \in Members(t) |-> 0]

\* ------------------------------------------------------ Match.start_new_day
\* Mutant: the draw is declared a day late.
start_new_day_a_day_late(s, c) ==
  LET s1 == [s EXCEPT !.current_day = s.day_counter] IN
  IF s.day_counter > MAX_DAYS + 1
  THEN [s1 EXCEPT !.match_over = TRUE, !.result_summary = Draw]
  ELSE
    LET lost_total == c.overs_lost_start + c.overs_lost_end
        sched == IF c.no_play THEN 0 ELSE Max(0, DAY_OVERS - lost_total)
        bat == Members(batting_team_id(s))
        movers == SelectSeq(s.retired_hurt_pending,
                            LAMBDA p : p \in bat /\ ~InSeq(p, s.retired_hurt_returning))
    IN [s1 EXCEPT
          !.current_conditions = c,
          !.day_no_play = c.no_play,
          !.day_overs_lost_start = c.overs_lost_start,
          !.day_overs_lost_end = c.overs_lost_end,
          !.day_overs_scheduled = sched,
          !.overs_in_day = 0,
          !.session_overs_completed = 0,
          !.session_number = 1,
          !.last_bowler = NoPlayer,
          !.bowler_overs_today = ZeroLimits(bowling_team_id(s)),
          !.bowler_overs_session = ZeroLimits(bowling_team_id(s)),
          !.limits_session_number = 1,
          !.retired_hurt_returning = s.retired_hurt_returning \o movers,
          !.retired_hurt_pending =
              SelectSeq(s.retired_hurt_pending, LAMBDA p : p \notin bat),
          !.retired_hurt_priority =
              IF movers # <<>> THEN TRUE ELSE s.retired_hurt_priority,
          !.day_counter = s.day_counter + 1]

\* Mutant: the overs the card takes off the day are not subtracted.
start_new_day_full_day(s, c) ==
  LET s1 == [s EXCEPT !.current_day = s.day_counter] IN
  IF s.day_counter > MAX_DAYS
  THEN [s1 EXCEPT !.match_over = TRUE, !.result_summary = Draw]
  ELSE
    LET sched == IF c.no_play THEN 0 ELSE DAY_OVERS
        bat == Members(batting_team_id(s))
        movers == SelectSeq(s.retired_hurt_pending,
                            LAMBDA p : p \in bat /\ ~InSeq(p, s.retired_hurt_returning))
    IN [s1 EXCEPT
          !.current_conditions = c,
          !.day_no_play = c.no_play,
          !.day_overs_lost_start = c.overs_lost_start,
          !.day_overs_lost_end = c.overs_lost_end,
          !.day_overs_scheduled = sched,
          !.overs_in_day = 0,
          !.session_overs_completed = 0,
          !.session_number = 1,
          !.last_bowler = NoPlayer,
          !.bowler_overs_today = ZeroLimits(bowling_team_id(s)),
          !.bowler_overs_session = ZeroLimits(bowling_team_id(s)),
          !.limits_session_number = 1,
          !.retired_hurt_returning = s.retired_hurt_returning \o movers,
          !.retired_hurt_pending =
              SelectSeq(s.retired_hurt_pending, LAMBDA p : p \notin bat),
          !.retired_hurt_priority =
              IF movers # <<>> THEN TRUE ELSE s.retired_hurt_priority,
          !.day_counter = s.day_counter + 1]

\* c is the card random.choice draws from the deck.
start_new_day(s, c) ==
  LET s1 == [s EXCEPT !.current_day = s.day_counter] IN
  IF s.day_counter > MAX_DAYS
  THEN [s1 EXCEPT !.match_over = TRUE, !.result_summary = Draw]
  ELSE
    LET lost_total == c.overs_lost_start + c.overs_lost_end
        sched == IF c.no_play THEN 0 ELSE Max(0, DAY_OVERS - lost_total)
        bat == Members(batting_team_id(s))
        movers == SelectSeq(s.retired_hurt_pending,
                            LAMBDA p : p \in bat /\ ~InSeq(p, s.retired_hurt_returning))
    IN [s1 EXCEPT
          !.current_conditions = c,
          !.day_no_play = c.no_play,
          !.day_overs_lost_start = c.overs_lost_start,
          !.day_overs_lost_end = c.overs_lost_end,
          !.day_overs_scheduled = sched,
          !.overs_in_day = 0,
          !.session_overs_completed = 0,
          !.session_number = 1,
          !.last_bowler = NoPlayer,
          !.bowler_overs_today = ZeroLimits(bowling_team_id(s)),
          !.bowler_overs_session = ZeroLimits(bowling_team_id(s)),
          !.limits_session_number = 1,
          !.retired_hurt_returning = s.retired_hurt_returning \o movers,
          !.retired_hurt_pending =
              SelectSeq(s.retired_hurt_pending, LAMBDA p : p \notin bat),
          !.retired_hurt_priority =
              IF movers # <<>> THEN TRUE ELSE s.retired_hurt_priority,
          !.day_counter = s.day_counter + 1]

\* History (not a field of Match): the over most recently accepted, and how many
\* overs each player has completed in that over's session and day (in_session,
\* in_day), and in that session and day of that over's innings (in_innings_session,
\* in_innings_day); brought_on[t] is how many players of side t have had an over
\* accepted.
NoOvers ==
  [ bowler |-> NoPlayer, innings |-> 0, day |-> 0, session |-> 0, count |-> 0,
    brought_on |-> [t \in Teams |-> 0],
    in_session |-> [p \in Player |-> 0], in_day |-> [p \in Player |-> 0],
    in_innings_session |-> [p \in Player |-> 0],
    in_innings_day |-> [p \in Player |-> 0] ]

\* ------------------------------------------------------------ Match.__init__
\* The fields as the constructor sets them, before its call of start_new_day.
Constructed ==
  [ innings |-> 1, runs |-> 0, wickets_taken |-> 0, overs_completed |-> 0,
    session_overs_completed |-> 0, session_number |-> 1,
    limits_session_number |-> 1,
    last_bowler |-> NoPlayer, current_batsmen |-> << <<1, 1>>, <<1, 2>> >>,
    next_batsman_index |-> 2, bowler |-> NoPlayer,
    bowler_overs_session |-> ZeroLimits(2),
    bowler_overs_today |-> ZeroLimits(2),
    match_over |-> FALSE, result_summary |-> NoResult,
    extras |-> 0, extras_nb |-> 0, extras_b |-> 0, extras_lb |-> 0,
    innings_summaries |-> << >>,
    innings_batting_team |-> <<1>>,
    follow_on_enforced |-> FALSE,
    current_over_legal_balls |-> 0,
    retired_hurt_pending |-> << >>, retired_hurt_returning |-> << >>,
    retired_hurt_priority |-> FALSE,
    day_counter |-> 1, current_day |-> 1,
    day_overs_scheduled |-> DAY_OVERS, overs_in_day |-> 0,
    day_no_play |-> FALSE, day_overs_lost_start |-> 0, day_overs_lost_end |-> 0,
    current_conditions |-> [phases |-> << >>],   \* None: no card yet, no phases
    innings_declared |-> FALSE,
    hattrick_count |-> 0, hattrick_pending_bowler |-> NoPlayer,
    last_ball_was_bowler_wicket |-> FALSE, last_wicket_bowler |-> NoPlayer,
    match_output |-> << >>,
    p_runs |-> [p \in Player |-> 0],
    p_wickets |-> [p \in Player |-> 0], fow |-> << >>,
    milestones_awarded |-> [p \in Player |-> {}], milestone_said |-> "",
    ball_by_ball_playing |-> FALSE, playback_idx |-> 0,
    pc |-> "idle", ball |-> 0,
    follow_on_asked |-> 0, over_log |-> NoOvers ]

\* ----------------------------------------------- Match._take_next_batsman
\* Mutant: the returning batters wait until the XI is used up, priority or not.
next_batsman_source_unused_first(s) ==
  IF s.next_batsman_index < TeamSize THEN "unused"
  ELSE IF s.retired_hurt_returning # << >> THEN "returning"
  ELSE "none"

\* Which of the three branches supplies the next batter: "priority" (a returning
\* retired-hurt batter, while priority is set), "unused" (the next of the XI),
\* "returning" (a returning batter once the XI is used up) or "none".
next_batsman_source(s) ==
  IF s.retired_hurt_returning # << >> /\ s.retired_hurt_priority THEN "priority"
  ELSE IF s.next_batsman_index < TeamSize THEN "unused"
  ELSE IF s.retired_hurt_returning # << >> THEN "returning"
  ELSE "none"

\* The player _take_next_batsman returns (NoPlayer for None).
next_batsman(s) ==
  CASE next_batsman_source(s) = "unused" ->
         team(batting_team_id(s))[s.next_batsman_index + 1]
    [] next_batsman_source(s) = "none" -> NoPlayer
    [] OTHER -> Head(s.retired_hurt_returning)

\* The fields after _take_next_batsman.
take_next_batsman(s) ==
  CASE next_batsman_source(s) = "unused" ->
         [s EXCEPT !.next_batsman_index = s.next_batsman_index + 1]
    [] next_batsman_source(s) = "none" -> s
    [] OTHER ->
         [s EXCEPT !.retired_hurt_returning = Tail(s.retired_hurt_returning),
                   !.retired_hurt_priority =
                      IF Tail(s.retired_hurt_returning) = << >> THEN FALSE
                      ELSE s.retired_hurt_priority]

no_batsmen_left(s) ==
  s.next_batsman_index >= TeamSize /\ s.retired_hurt_returning = << >>

\* ----------------------------------------------- totals and match results
RECURSIVE SumRuns(_, _, _)
\* Sum of the runs of the completed innings in `ks` that side `tid` batted.
SumRuns(s, ks, tid) ==
  IF ks = {} THEN 0
  ELSE LET k == CHOOSE x \in ks : TRUE
           mine == Get(s.innings_batting_team, k, IF k \in {1, 3} THEN 1 ELSE 2) = tid
       IN (IF mine THEN s.innings_summaries[k].runs ELSE 0)
          + SumRuns(s, ks \ {k}, tid)

\* Mutant: innings 1 and 3 are counted for side 1 and innings 2 and 4 for side 2,
\* whoever batted them.
totals_by_innings_parity(s) ==
  LET runs_of(k) == Get(s.innings_summaries, k, [runs |-> 0]).runs
  IN << runs_of(1) + runs_of(3), runs_of(2) + runs_of(4) >>

totals_by_team_completed(s) ==
  << SumRuns(s, DOMAIN s.innings_summaries, 1),
     SumRuns(s, DOMAIN s.innings_summaries, 2) >>

totals_by_team_including_current(s) ==
  LET t == totals_by_team_completed(s) IN
  IF batting_team_id(s) = 1 THEN << t[1] + s.runs, t[2] >>
  ELSE << t[1], t[2] + s.runs >>

\* Whether check_chase_complete returns True.
chase_complete(s) ==
  LET bt == Get(s.innings_batting_team, 4, 2)
      ahead(t) == \/ bt = 1 /\ t[1] > t[2]
                  \/ bt = 2 /\ t[2] > t[1]
  IN /\ s.innings = 4
     /\ ~s.match_over
     /\ ahead(totals_by_team_including_current(s))

\* The fields after check_chase_complete.
check_chase_complete(s) ==
  IF chase_complete(s)
  THEN [s EXCEPT !.match_over = TRUE,
                 !.result_summary =
                    Win(Get(s.innings_batting_team, 4, 2), "wickets",
                        Max(0, 10 - s.wickets_taken))]
  ELSE s

\* Mutant: level totals end the match without a result.
determine_result_without_tie(s) ==
  IF s.match_over THEN s
  ELSE IF Cardinality(DOMAIN s.innings_summaries) < 4 THEN s
  ELSE LET t == totals_by_team_completed(s) IN
       IF t[1] = t[2] THEN [s EXCEPT !.match_over = TRUE]
       ELSE [s EXCEPT !.match_over = TRUE,
                      !.result_summary =
                         IF t[1] > t[2] THEN Win(1, "runs", t[1] - t[2])
                         ELSE Win(2, "runs", t[2] - t[1])]

determine_result(s) ==
  IF s.match_over THEN s
  ELSE IF Cardinality(DOMAIN s.innings_summaries) < 4 THEN s
  ELSE LET t == totals_by_team_completed(s) IN
       [s EXCEPT !.match_over = TRUE,
                 !.result_summary =
                    IF t[1] > t[2] THEN Win(1, "runs", t[1] - t[2])
                    ELSE IF t[2] > t[1] THEN Win(2, "runs", t[2] - t[1])
                    ELSE Tie]

\* -------------------------------------------------------------- end_innings
snapshot_innings_summary(s) ==
  [s EXCEPT !.innings_summaries =
     Put(s.innings_summaries, s.innings,
         [ runs |-> s.runs, wickets |-> s.wickets_taken,
           overs |-> s.overs_completed, extras |-> s.extras,
           extras_b |-> s.extras_b, extras_lb |-> s.extras_lb,
           extras_nb |-> s.extras_nb,
           batting_rows |->
             [i \in 1..TeamSize |-> s.p_runs[team(batting_team_id(s))[i]]] ])]

\* Mutant: the lead is compared with one run less than the threshold.
offer_follow_on_one_run_early(s, yes) ==
  IF s.innings # 2 THEN s
  ELSE LET lead == Get(s.innings_summaries, 1, [runs |-> 0]).runs
                   - Get(s.innings_summaries, 2, [runs |-> 0]).runs
       IN IF lead >= follow_on_threshold - 1
          THEN [s EXCEPT !.follow_on_enforced = yes,
                         !.follow_on_asked = s.follow_on_asked + 1]
          ELSE s

\* Mutant: a lead of exactly the threshold does not put the question.
offer_follow_on_above_threshold(s, yes) ==
  IF s.innings # 2 THEN s
  ELSE LET lead == Get(s.innings_summaries, 1, [runs |-> 0]).runs
                   - Get(s.innings_summaries, 2, [runs |-> 0]).runs
       IN IF lead > follow_on_threshold
          THEN [s EXCEPT !.follow_on_enforced = yes,
                         !.follow_on_asked = s.follow_on_asked + 1]
          ELSE s

\* yes is the caller's answer to the follow-on question, used when it is asked.
offer_follow_on_if_available(s, yes) ==
  IF s.innings # 2 THEN s
  ELSE LET lead == Get(s.innings_summaries, 1, [runs |-> 0]).runs
                   - Get(s.innings_summaries, 2, [runs |-> 0]).runs
       IN IF lead >= follow_on_threshold
          THEN [s EXCEPT !.follow_on_enforced = yes,
                         !.follow_on_asked = s.follow_on_asked + 1]
          ELSE s

\* Mutant: level totals count as an innings victory too.
follow_on_victory_or_level(s) ==
  /\ s.innings = 3
  /\ s.follow_on_enforced
  /\ Get(s.innings_batting_team, 3, 2) = 2
  /\ Get(s.innings_summaries, 2, [runs |-> 0]).runs
       + Get(s.innings_summaries, 3, [runs |-> 0]).runs
     <= Get(s.innings_summaries, 1, [runs |-> 0]).runs

\* The innings victory after a follow-on innings 3 (end_innings, first block).
follow_on_victory(s) ==
  /\ s.innings = 3
  /\ s.follow_on_enforced
  /\ Get(s.innings_batting_team, 3, 2) = 2
  /\ Get(s.innings_summaries, 2, [runs |-> 0]).runs
       + Get(s.innings_summaries, 3, [runs |-> 0]).runs
     < Get(s.innings_summaries, 1, [runs |-> 0]).runs

\* Mutant: innings 3 goes to the side that batted first whatever the answer was.
advance_innings_ignoring_follow_on(s) ==
  LET n == s.innings + 1
      ibt == IF n = 2 THEN Put(s.innings_batting_team, 2, 2)
             ELSE IF n = 3
                  THEN Put(s.innings_batting_team, 3, 1)
             ELSE IF n = 4
                  THEN Put(s.innings_batting_team, 4,
                           IF Get(s.innings_batting_team, 3, 1) = 2 THEN 1 ELSE 2)
             ELSE s.innings_batting_team
      s1 == [s EXCEPT !.innings = n, !.innings_batting_team = ibt]
      bt == batting_team_id(s1)
      bw == bowling_team_id(s1)
  IN [s1 EXCEPT
        !.runs = 0, !.wickets_taken = 0, !.overs_completed = 0,
        !.current_over_legal_balls = 0,
        !.limits_session_number = s.session_number,
        !.extras = 0, !.extras_nb = 0, !.extras_b = 0, !.extras_lb = 0,
        !.bowler_overs_session = ZeroLimits(bw),
        !.bowler_overs_today = ZeroLimits(bw),
        !.last_bowler = NoPlayer,
        !.fow = << >>,
        !.p_runs = [p \in Player |-> IF TeamOf(p) = bt THEN 0 ELSE s.p_runs[p]],
        !.p_wickets = [p \in Player |-> IF TeamOf(p) = bw THEN 0 ELSE s.p_wickets[p]],
        !.current_batsmen = << team(bt)[1], team(bt)[2] >>,
        !.next_batsman_index = 2,
        !.bowler = NoPlayer]

\* The part of end_innings that opens the next innings.
advance_innings(s) ==
  LET n == s.innings + 1
      ibt == IF n = 2 THEN Put(s.innings_batting_team, 2, 2)
             ELSE IF n = 3
                  THEN Put(s.innings_batting_team, 3,
                           IF s.follow_on_enforced THEN 2 ELSE 1)
             ELSE IF n = 4
                  THEN Put(s.innings_batting_team, 4,
                           IF Get(s.innings_batting_team, 3, 1) = 2 THEN 1 ELSE 2)
             ELSE s.innings_batting_team
      s1 == [s EXCEPT !.innings = n, !.innings_batting_team = ibt]
      bt == batting_team_id(s1)
      bw == bowling_team_id(s1)
  IN [s1 EXCEPT
        !.runs = 0, !.wickets_taken = 0, !.overs_completed = 0,
        !.current_over_legal_balls = 0,
        !.limits_session_number = s.session_number,
        !.extras = 0, !.extras_nb = 0, !.extras_b = 0, !.extras_lb = 0,
        !.bowler_overs_session = ZeroLimits(bw),
        !.bowler_overs_today = ZeroLimits(bw),
        !.last_bowler = NoPlayer,
        !.fow = << >>,
        !.p_runs = [p \in Player |-> IF TeamOf(p) = bt THEN 0 ELSE s.p_runs[p]],
        !.p_wickets = [p \in Player |-> IF TeamOf(p) = bw THEN 0 ELSE s.p_wickets[p]],
        !.current_batsmen = << team(bt)[1], team(bt)[2] >>,
        !.next_batsman_index = 2,
        !.bowler = NoPlayer]

\* end_innings after its guard and its snapshot of the closing innings.
close_innings(s, yes) ==
  IF follow_on_victory(s)
  THEN [s EXCEPT
          !.result_summary =
             Win(1, "innings",
                 s.innings_summaries[1].runs
                 - (s.innings_summaries[2].runs + s.innings_summaries[3].runs)),
          !.match_over = TRUE]
  ELSE IF s.innings >= 4
  THEN [determine_result(s) EXCEPT !.match_over = TRUE]
  ELSE advance_innings(offer_follow_on_if_available(s, yes))

\* Mutant: the snapshot is taken after the innings has been closed.
end_innings_snapshot_after_close(s, force, yes) ==
  IF ~force /\ ~s.innings_declared /\ s.wickets_taken < 10 THEN s
  ELSE snapshot_innings_summary(close_innings(s, yes))

end_innings(s, force, yes) ==
  IF ~force /\ ~s.innings_declared /\ s.wickets_taken < 10 THEN s
  ELSE close_innings(snapshot_innings_summary(s), yes)

declare_innings(s, yes) ==
  end_innings([s EXCEPT !.innings_declared = TRUE], FALSE, yes)

\* Mutant: the request is not refused once the match is over.
gui_declare_innings_unguarded(s, confirm, yes) ==
  IF ~confirm THEN s
  ELSE declare_innings(s, yes)

\* CricketGUI.declare_innings: confirm is the answer to "Declare the current
\* innings now?".
gui_declare_innings(s, confirm, yes) ==
  IF s.match_over THEN s
  ELSE IF ~confirm THEN s
  ELSE declare_innings(s, yes)

\* ------------------------------------------- wickets and replacing a batter
\* Mutant: the guard for ten wickets already down is missing.
increment_wicket_unguarded(s, yes) ==
  LET s1 == [s EXCEPT !.wickets_taken = s.wickets_taken + 1,
                      !.fow = Append(s.fow, << s.wickets_taken + 1, s.runs >>)] IN
  IF s1.wickets_taken = 10
  THEN [ended |-> TRUE, s |-> end_innings(s1, FALSE, yes)]
  ELSE [ended |-> FALSE, s |-> s1]

\* Mutant: the innings is ended one wicket early.
increment_wicket_ends_at_nine(s, yes) ==
  IF s.wickets_taken >= 10 THEN [ended |-> TRUE, s |-> s]
  ELSE LET s1 == [s EXCEPT !.wickets_taken = s.wickets_taken + 1,
                           !.fow = Append(s.fow, << s.wickets_taken + 1, s.runs >>)] IN
       IF s1.wickets_taken >= 9
       THEN [ended |-> TRUE, s |-> end_innings(s1, TRUE, yes)]
       ELSE [ended |-> FALSE, s |-> s1]

\* Mutant: the fall of the wicket is not logged.
increment_wicket_without_fow(s, yes) ==
  IF s.wickets_taken >= 10 THEN [ended |-> TRUE, s |-> s]
  ELSE LET s1 == [s EXCEPT !.wickets_taken = s.wickets_taken + 1] IN
       IF s1.wickets_taken = 10
       THEN [ended |-> TRUE, s |-> end_innings(s1, FALSE, yes)]
       ELSE [ended |-> FALSE, s |-> s1]

\* _increment_wicket_and_maybe_end: [ended |-> its return value, s |-> the fields].
increment_wicket_and_maybe_end(s, yes) ==
  IF s.wickets_taken >= 10 THEN [ended |-> TRUE, s |-> s]
  ELSE LET s1 == [s EXCEPT !.wickets_taken = s.wickets_taken + 1,
                           !.fow = Append(s.fow, << s.wickets_taken + 1, s.runs >>)] IN
       IF s1.wickets_taken = 10
       THEN [ended |-> TRUE, s |-> end_innings(s1, FALSE, yes)]
       ELSE [ended |-> FALSE, s |-> s1]

\* Mutant: the innings is not ended when fewer than two batters remain.
maybe_end_innings_never(s, yes) ==
  [ended |-> FALSE, s |-> s]

\* _maybe_end_innings_no_batsmen: [ended |-> its return value, s |-> the fields].
maybe_end_innings_no_batsmen(s, yes) ==
  IF Len(s.current_batsmen) < 2 /\ no_batsmen_left(s)
  THEN [ended |-> TRUE, s |-> end_innings(s, TRUE, yes)]
  ELSE [ended |-> FALSE, s |-> s]

\* nb = _take_next_batsman(); current_batsmen[idx] = nb when there is one, else
\* current_batsmen = rest and _maybe_end_innings_no_batsmen decides.
replace_batsman(s, idx, rest, yes) ==
  LET nb == next_batsman(s)
      s1 == take_next_batsman(s)
  IN IF nb # NoPlayer
     THEN [ended |-> FALSE,
           s |-> [s1 EXCEPT !.current_batsmen = [s.current_batsmen EXCEPT ![idx] = nb]]]
     ELSE maybe_end_innings_no_batsmen([s1 EXCEPT !.current_batsmen = rest], yes)

retire_hurt(s, striker) ==
  IF InSeq(striker, s.retired_hurt_pending) THEN s
  ELSE [s EXCEPT !.retired_hurt_pending = Append(s.retired_hurt_pending, striker)]

\* ------------------------------------------- conditions and ratings
\* Mutant: the over is looked up by the overs already bowled, not by the number
\* of the over about to be bowled.
current_condition_modifiers_zero_indexed(s) ==
  LET over_num == s.overs_in_day
      phases == s.current_conditions.phases
      hits == {i \in 1..Len(phases) :
                 phases[i].start <= over_num /\ over_num <= phases[i].end}
      first == CHOOSE i \in hits : \A j \in hits : i <= j
  IN IF s.day_no_play \/ hits = {} THEN << 0, 0 >>
     ELSE << phases[first].bat, phases[first].bowl >>

\* _current_condition_modifiers_for_over: << batsman_modifier, bowler_modifier >>
\* of the first phase of the day's card that holds the over about to be bowled.
current_condition_modifiers_for_over(s) ==
  LET over_num == s.overs_in_day + 1
      phases == s.current_conditions.phases
      hits == {i \in 1..Len(phases) :
                 phases[i].start <= over_num /\ over_num <= phases[i].end}
      first == CHOOSE i \in hits : \A j \in hits : i <= j
  IN IF s.day_no_play \/ hits = {} THEN << 0, 0 >>
     ELSE << phases[first].bat, phases[first].bowl >>

RATINGS_ORDER == << "A", "B", "C", "D", "E", "F", "G" >>

\* apply_rating_modifier(rating, modifier); the list is indexed from 1 here.
apply_rating_modifier(rating, modifier) ==
  IF ~InSeq(rating, RATINGS_ORDER) THEN rating
  ELSE LET idx == CHOOSE i \in 1..Len(RATINGS_ORDER) : RATINGS_ORDER[i] = rating
           new_idx == Max(1, IF idx + modifier <= Len(RATINGS_ORDER)
                             THEN idx + modifier ELSE Len(RATINGS_ORDER))
       IN RATINGS_ORDER[new_idx]

\* ------------------------------------------------- batting milestones
\* The dict `milestones` of _check_batting_milestones, in its order.
MILESTONES ==
  << [at |-> 50, text |-> "And that's his 50!"],
     [at |-> 100, text |-> "He lifts his bat to acknowledge a magnificent century!"],
     [at |-> 150, text |-> "That's 150 - he doesn't look like he's going to stop there"],
     [at |-> 200, text |-> "A double century - what an achievement"],
     [at |-> 300, text |-> "He joins the greats like Bradman, Sobers, Sehwag, Sangakkara & Lara with a triple century"],
     [at |-> 400, text |-> "That's it!!! He's equaled the record for the highest ever Test score"] >>

\* The text returned beyond 400 runs (the key 'over400').
Over400 ==
  "He's stands alone at the top of the mountain - Test cricket's highest ever innings!"

\* Mutant: the record of milestones is not consulted.
check_batting_milestones_every_ball(s, batsman, said) ==
  LET r == s.p_runs[batsman]
      due == {i \in 1..Len(MILESTONES) : r >= MILESTONES[i].at}
      first == CHOOSE i \in due : \A j \in due : i <= j
  IN IF due # {}
     THEN [s EXCEPT !.milestone_said = IF said THEN MILESTONES[first].text ELSE @]
     ELSE s

\* _check_batting_milestones(batsman) and the line of its caller: the first
\* milestone reached and not yet awarded is recorded, and written to the output
\* when `said` (the caller's condition on the runs of the ball) holds.
check_batting_milestones(s, batsman, said) ==
  LET r == s.p_runs[batsman]
      awarded == s.milestones_awarded[batsman]
      due == {i \in 1..Len(MILESTONES) :
                r >= MILESTONES[i].at /\ MILESTONES[i].text \notin awarded}
      first == CHOOSE i \in due : \A j \in due : i <= j
  IN IF due # {}
     THEN [s EXCEPT !.milestones_awarded[batsman] = awarded \cup {MILESTONES[first].text},
                    !.milestone_said = IF said THEN MILESTONES[first].text ELSE @]
     ELSE IF r > 400 /\ Over400 \notin awarded
     THEN [s EXCEPT !.milestones_awarded[batsman] = awarded \cup {Over400},
                    !.milestone_said = IF said THEN Over400 ELSE @]
     ELSE s

\* ------------------------------------------------- hat-trick commentary
OnAHatTrick == "He's on a hat trick now - can he get the vital third wicket"
AHatTrick == "A hat trick!!! What an achievement"
NotThisTime == "Not this time - "

\* The dismissals credited to the bowler.
BowlerMethods == {"Bowled", "LBW", "Caught", "Caught WK", "Stumped WK"}

register_bowler_wicket_for_hattrick(s) ==
  LET b == s.bowler
      n == IF s.last_ball_was_bowler_wicket /\ s.last_wicket_bowler = b
           THEN s.hattrick_count + 1 ELSE 1
  IN IF n = 2
     THEN [s EXCEPT !.hattrick_count = 2, !.last_ball_was_bowler_wicket = TRUE,
                    !.last_wicket_bowler = b, !.hattrick_pending_bowler = b,
                    !.match_output = Append(s.match_output, OnAHatTrick)]
     ELSE IF n = 3
     THEN [s EXCEPT !.hattrick_count = 0, !.last_ball_was_bowler_wicket = FALSE,
                    !.last_wicket_bowler = NoPlayer,
                    !.hattrick_pending_bowler = NoPlayer,
                    !.match_output = Append(s.match_output, AHatTrick)]
     ELSE [s EXCEPT !.hattrick_count = n, !.last_ball_was_bowler_wicket = TRUE,
                    !.last_wicket_bowler = b]

\* Mutant: the bowler is credited whatever the method, a run-out included.
credit_bowler_for_any_method(s, method) ==
  register_bowler_wicket_for_hattrick(
    [s EXCEPT !.p_wickets[s.bowler] = s.p_wickets[s.bowler] + 1])

\* if method.lower() in {"bowled", "lbw", "caught", "caught wk", "stumped wk"}:
\* the bowler is credited and the wicket registered (lines 930-933, 1031-1034,
\* 1143-1146).
credit_bowler(s, method) ==
  IF method \in BowlerMethods
  THEN register_bowler_wicket_for_hattrick(
         [s EXCEPT !.p_wickets[s.bowler] = s.p_wickets[s.bowler] + 1])
  ELSE s

break_hattrick_chain(s) ==
  [s EXCEPT !.last_ball_was_bowler_wicket = FALSE,
            !.hattrick_pending_bowler = NoPlayer,
            !.last_wicket_bowler = NoPlayer]

\* _apply_hattrick_miss_prefix, as far as it changes the match: the line it
\* returns starts with "Not this time - " when the bowler was on a hat-trick.
apply_hattrick_miss_prefix(s) ==
  IF /\ s.hattrick_pending_bowler # NoPlayer
     /\ s.bowler # NoPlayer
     /\ s.hattrick_pending_bowler = s.bowler
  THEN [s EXCEPT !.hattrick_pending_bowler = NoPlayer, !.hattrick_count = 0,
                 !.last_ball_was_bowler_wicket = FALSE,
                 !.last_wicket_bowler = NoPlayer,
                 !.match_output = Append(s.match_output, NotThisTime)]
  ELSE s

\* ------------------------------------------------- one ball of start_over
\* What simulate_ball returns.
RunsOutcome(n) == [type |-> "Runs", runs |-> n, appeal_result |-> "", method |-> "", card |-> 0]
AppealOutcome(r, m, k) == [type |-> "Appeal", runs |-> 0, appeal_result |-> r, method |-> m, card |-> k]
LooseBallOutcome(k) == [type |-> "Loose Ball", runs |-> 0, appeal_result |-> "", method |-> "", card |-> k]

DismissalMethods == {"Caught", "Bowled", "LBW", "Stumped WK", "Caught WK"}
ChartRuns == {0, 1, 2, 3, 4, 6}
CardIds == 1..Len(LOOSE_BALL_CARDS)

Outcomes ==
  {RunsOutcome(n) : n \in ChartRuns}
  \cup {AppealOutcome("Not Out", "", 0), AppealOutcome("No Ball", "", 0)}
  \cup {AppealOutcome("Out", m, 0) : m \in DismissalMethods}
  \cup {AppealOutcome("Loose Ball", "", k) : k \in CardIds}
  \cup {LooseBallOutcome(k) : k \in CardIds}

\* ------------------------------------------------------------ simulate_ball
\* Mutant: the rows without the two blanks that pad indexes 0 and 1.
BATTING_CHART_unpadded ==
  [ A |-> << "*", "1", "4", "6", "4", "4", "6", "2", "3", "*", "Loose Ball" >>,
    B |-> << "2", "*", "6", "4", "3", "4", "4", "6", "3", "*", "Loose Ball" >>,
    C |-> << "*", "*", "6", "2", "3", "4", "4", "6", "3", "*", "Loose Ball" >>,
    D |-> << "*", "*", "4", "3", "6", "4", "3", "4", "*", "3", "Loose Ball" >>,
    E |-> << "*", "*", "1", "2", "3", "4", "4", "3", "*", "4", "Loose Ball" >>,
    F |-> << "0", "*", "3", "4", "2", "1", "2", "2", "*", "*", "Loose Ball" >>,
    G |-> << "3", "*", "0", "*", "1", "0", "2", "1", "*", "4", "Loose Ball" >> ]

\* The dice charts, a row per rating. A Python list is indexed from 0: the cell
\* for a dice sum d is row[d + 1] here.
BATTING_CHART ==
  [ A |-> << "", "", "*", "1", "4", "6", "4", "4", "6", "2", "3", "*", "Loose Ball" >>,
    B |-> << "", "", "2", "*", "6", "4", "3", "4", "4", "6", "3", "*", "Loose Ball" >>,
    C |-> << "", "", "*", "*", "6", "2", "3", "4", "4", "6", "3", "*", "Loose Ball" >>,
    D |-> << "", "", "*", "*", "4", "3", "6", "4", "3", "4", "*", "3", "Loose Ball" >>,
    E |-> << "", "", "*", "*", "1", "2", "3", "4", "4", "3", "*", "4", "Loose Ball" >>,
    F |-> << "", "", "0", "*", "3", "4", "2", "1", "2", "2", "*", "*", "Loose Ball" >>,
    G |-> << "", "", "3", "*", "0", "*", "1", "0", "2", "1", "*", "4", "Loose Ball" >> ]

\* Mutant: the rows without the two blanks that pad indexes 0 and 1.
BOWLER_WICKET_CHART_unpadded ==
  [ A |-> << "No ball", "LBW", "Caught WK", "Caught", "Not out", "Bowled", "Not out", "Caught", "LBW", "Caught WK", "Loose Ball" >>,
    B |-> << "No ball", "LBW", "Caught", "Not out", "Not out", "Bowled", "Not out", "Caught WK", "Stumped WK", "LBW", "Loose Ball" >>,
    C |-> << "No ball", "Not out", "Stumped WK", "Not out", "Caught", "Not out", "Bowled", "Not out", "LBW", "Not out", "Loose Ball" >>,
    D |-> << "No ball", "Caught", "Bowled", "Not out", "Not out", "Not out", "Not out", "Caught", "LBW", "Not out", "Loose Ball" >>,
    E |-> << "No ball", "Caught", "Not out", "Caught", "Not out", "Not out", "Not out", "Not out", "Not out", "Bowled", "Loose Ball" >> ]

BOWLER_WICKET_CHART ==
  [ A |-> << "", "", "No ball", "LBW", "Caught WK", "Caught", "Not out", "Bowled", "Not out", "Caught", "LBW", "Caught WK", "Loose Ball" >>,
    B |-> << "", "", "No ball", "LBW", "Caught", "Not out", "Not out", "Bowled", "Not out", "Caught WK", "Stumped WK", "LBW", "Loose Ball" >>,
    C |-> << "", "", "No ball", "Not out", "Stumped WK", "Not out", "Caught", "Not out", "Bowled", "Not out", "LBW", "Not out", "Loose Ball" >>,
    D |-> << "", "", "No ball", "Caught", "Bowled", "Not out", "Not out", "Not out", "Not out", "Caught", "LBW", "Not out", "Loose Ball" >>,
    E |-> << "", "", "No ball", "Caught", "Not out", "Caught", "Not out", "Not out", "Not out", "Not out", "Not out", "Bowled", "Loose Ball" >> ]

\* The sums of two dice, random.randint(1, 6) + random.randint(1, 6).
DiceSums == 2..12

\* int(bat_result), 0 when the cell is no number.
IntOf(cell) ==
  CASE cell = "0" -> 0 [] cell = "1" -> 1 [] cell = "2" -> 2 [] cell = "3" -> 3
    [] cell = "4" -> 4 [] cell = "5" -> 5 [] cell = "6" -> 6 [] OTHER -> 0

\* _loose_ball_payload: the card as start_over reads it.
loose_ball_payload(card) ==
  [ type |-> "Loose Ball", text |-> card.text, out |-> card.out,
    method |-> card.method, batsman_runs |-> card.batsman_runs,
    bowler_runs |-> card.bowler_runs, extras_runs |-> card.extras_runs,
    score_inc |-> card.score_inc, no_ball |-> card.no_ball,
    extra_ball |-> card.extra_ball, retired_hurt |-> card.retired_hurt ]

\* Mutant: the batting chart is read before the dice are looked at for a 12.
simulate_ball_chart_first(adj_bat_rating, adj_bowl_rating, dice, dice_w, card) ==
  LET bat_row == IF adj_bat_rating \in DOMAIN BATTING_CHART
                 THEN BATTING_CHART[adj_bat_rating]
                 ELSE << "", "" >> \o [i \in 1..11 |-> "*"]
      bat_result == IF dice < Len(bat_row) THEN bat_row[dice + 1]
                    ELSE bat_row[Len(bat_row)]
      bowl_row == IF adj_bowl_rating \in DOMAIN BOWLER_WICKET_CHART
                  THEN BOWLER_WICKET_CHART[adj_bowl_rating]
                  ELSE << "", "" >> \o [i \in 1..11 |-> "Not out"]
      bowl_result == IF dice_w < Len(bowl_row) THEN bowl_row[dice_w + 1]
                     ELSE "Not out"
  IN IF bat_result = "*"
     THEN IF bowl_result = "No ball" THEN AppealOutcome("No Ball", "", 0)
          ELSE IF bowl_result = "Loose Ball" THEN AppealOutcome("Loose Ball", "", card)
          ELSE IF bowl_result \in {"Caught", "Bowled", "LBW", "Stumped WK", "Caught WK"}
          THEN AppealOutcome("Out", bowl_result, 0)
          ELSE AppealOutcome("Not Out", "", 0)
     ELSE IF dice = 12 \/ bat_result = "Loose Ball" THEN LooseBallOutcome(card)
     ELSE RunsOutcome(IntOf(bat_result))

\* Mutant: an appeal answered "Loose Ball" carries the label and no card.
simulate_ball_bare_label(adj_bat_rating, adj_bowl_rating, dice, dice_w, card) ==
  LET bat_row == IF adj_bat_rating \in DOMAIN BATTING_CHART
                 THEN BATTING_CHART[adj_bat_rating]
                 ELSE << "", "" >> \o [i \in 1..11 |-> "*"]
      bat_result == IF dice < Len(bat_row) THEN bat_row[dice + 1]
                    ELSE bat_row[Len(bat_row)]
      bowl_row == IF adj_bowl_rating \in DOMAIN BOWLER_WICKET_CHART
                  THEN BOWLER_WICKET_CHART[adj_bowl_rating]
                  ELSE << "", "" >> \o [i \in 1..11 |-> "Not out"]
      bowl_result == IF dice_w < Len(bowl_row) THEN bowl_row[dice_w + 1]
                     ELSE "Not out"
  IN IF dice = 12 THEN LooseBallOutcome(card)
     ELSE IF bat_result = "*"
     THEN IF bowl_result = "No ball" THEN AppealOutcome("No Ball", "", 0)
          ELSE IF bowl_result = "Loose Ball" THEN AppealOutcome("Loose Ball", "", 0)
          ELSE IF bowl_result \in {"Caught", "Bowled", "LBW", "Stumped WK", "Caught WK"}
          THEN AppealOutcome("Out", bowl_result, 0)
          ELSE AppealOutcome("Not Out", "", 0)
     ELSE IF bat_result = "Loose Ball" THEN LooseBallOutcome(card)
     ELSE RunsOutcome(IntOf(bat_result))

\* simulate_ball with its random draws as arguments: dice and dice_w are the two
\* rolls of 2d6, card is the index random.choice takes from LOOSE_BALL_CARDS.
simulate_ball(adj_bat_rating, adj_bowl_rating, dice, dice_w, card) ==
  LET bat_row == IF adj_bat_rating \in DOMAIN BATTING_CHART
                 THEN BATTING_CHART[adj_bat_rating]
                 ELSE << "", "" >> \o [i \in 1..11 |-> "*"]
      bat_result == IF dice < Len(bat_row) THEN bat_row[dice + 1]
                    ELSE bat_row[Len(bat_row)]
      bowl_row == IF adj_bowl_rating \in DOMAIN BOWLER_WICKET_CHART
                  THEN BOWLER_WICKET_CHART[adj_bowl_rating]
                  ELSE << "", "" >> \o [i \in 1..11 |-> "Not out"]
      bowl_result == IF dice_w < Len(bowl_row) THEN bowl_row[dice_w + 1]
                     ELSE "Not out"
  IN IF dice = 12 THEN LooseBallOutcome(card)
     ELSE IF bat_result = "*"
     THEN IF bowl_result = "No ball" THEN AppealOutcome("No Ball", "", 0)
          ELSE IF bowl_result = "Loose Ball" THEN AppealOutcome("Loose Ball", "", card)
          ELSE IF bowl_result \in {"Caught", "Bowled", "LBW", "Stumped WK", "Caught WK"}
          THEN AppealOutcome("Out", bowl_result, 0)
          ELSE AppealOutcome("Not Out", "", 0)
     ELSE IF bat_result = "Loose Ball" THEN LooseBallOutcome(card)
     ELSE RunsOutcome(IntOf(bat_result))

\* The ratings start_over may pass to simulate_ball.
BattingRatings == DOMAIN BATTING_CHART
BowlingRatings == DOMAIN BOWLER_WICKET_CHART

\* What simulate_ball returns for some ratings, dice and card.
DiceOutcomes ==
  { simulate_ball(b, w, d, dw, k) :
      b \in BattingRatings, w \in BowlingRatings, d \in DiceSums, dw \in DiceSums,
      k \in CardIds }

\* A branch of the loop body ends in `return` (the over is abandoned) or falls
\* through to the end of the iteration with legal_delivery set.
Returned(s) == [returned |-> TRUE, legal |-> FALSE, s |-> [s EXCEPT !.pc = "idle", !.ball = 0]]
FellThrough(s, legal) == [returned |-> FALSE, legal |-> legal, s |-> s]
AfterReplace(r, legal) == IF r.ended THEN Returned(r.s) ELSE FellThrough(r.s, legal)

\* Mutant: the chase is not checked after runs off the bat.
ball_runs_without_chase_check(s, n) ==
  LET striker == s.current_batsmen[1]
      s1 == check_batting_milestones(
              [s EXCEPT !.runs = s.runs + n,
                        !.p_runs = [s.p_runs EXCEPT ![striker] = s.p_runs[striker] + n]],
              striker, TRUE)
  IN FellThrough(
       IF n % 2 = 1 /\ Len(s1.current_batsmen) = 2
       THEN [s1 EXCEPT !.current_batsmen =
                          << s1.current_batsmen[2], s1.current_batsmen[1] >>]
       ELSE s1,
       TRUE)

\* Scoring runs off the bat (lines 1202-1228).
ball_runs(s, n) ==
  LET striker == s.current_batsmen[1]
      s1 == check_batting_milestones(
              [s EXCEPT !.runs = s.runs + n,
                        !.p_runs = [s.p_runs EXCEPT ![striker] = s.p_runs[striker] + n]],
              striker, TRUE)
  IN IF chase_complete(s1) THEN Returned(check_chase_complete(s1))
     ELSE FellThrough(
            IF n % 2 = 1 /\ Len(s1.current_batsmen) = 2
            THEN [s1 EXCEPT !.current_batsmen =
                               << s1.current_batsmen[2], s1.current_batsmen[1] >>]
            ELSE s1,
            TRUE)

\* Appeal, given out (lines 899-943).
ball_appeal_out(s, yes) ==
  LET next_in(w) ==
        IF w.ended THEN Returned(w.s)
        ELSE AfterReplace(replace_batsman(w.s, 1, << >>, yes), TRUE)
  IN next_in(increment_wicket_and_maybe_end(s, yes))

\* Mutant: the no-ball on an appeal counts as a legal delivery.
ball_appeal_no_ball_counted(s) ==
  LET s1 == [s EXCEPT !.runs = s.runs + 1] IN
  IF chase_complete(s1) THEN Returned(check_chase_complete(s1))
  ELSE FellThrough([s1 EXCEPT !.extras = s.extras + 1,
                              !.extras_nb = s.extras_nb + 1],
                   TRUE)

\* Appeal, no ball (lines 944-956).
ball_appeal_no_ball(s) ==
  LET s1 == [s EXCEPT !.runs = s.runs + 1] IN
  IF chase_complete(s1) THEN Returned(check_chase_complete(s1))
  ELSE FellThrough([s1 EXCEPT !.extras = s.extras + 1,
                              !.extras_nb = s.extras_nb + 1],
                   FALSE)

\* The dismissal a loose-ball card drawn on an appeal flags (lines 1016-1066).
appeal_card_dismissal(s, c, legal, yes) ==
  LET who == IF c.method = "Run Out" /\ c.text_bowler THEN "non-striker" ELSE c.out
      replace_index == IF who = "striker" THEN 1 ELSE 2
      out_player == s.current_batsmen[replace_index]
      next_in(w) ==
        IF w.ended THEN Returned(w.s)
        ELSE AfterReplace(
               replace_batsman(w.s, replace_index,
                               SelectSeq(w.s.current_batsmen, LAMBDA p : p # out_player),
                               yes),
               legal)
  IN next_in(increment_wicket_and_maybe_end(s, yes))

\* Appeal, loose ball (lines 957-1066).
ball_appeal_loose_ball(s, c, yes) ==
  LET striker == s.current_batsmen[1]
      s0 == check_batting_milestones(
              [s EXCEPT !.p_runs = [s.p_runs EXCEPT ![striker] = s.p_runs[striker] + c.batsman_runs]],
              striker, c.batsman_runs > 0)
      s1 == [s0 EXCEPT !.runs = s.runs + c.score_inc]
      s2 == [s1 EXCEPT
               !.extras = s1.extras + c.extras_runs,
               !.extras_nb = IF c.text_no_ball \/ c.no_ball THEN s1.extras_nb + 1
                             ELSE s1.extras_nb,
               !.extras_b = IF c.text_bye THEN s1.extras_b + c.extras_runs
                            ELSE s1.extras_b,
               !.extras_lb = IF c.text_leg_bye THEN s1.extras_lb + c.extras_runs
                             ELSE s1.extras_lb]
      legal == ~(c.extra_ball \/ c.no_ball)
  IN IF chase_complete(s1) THEN Returned(check_chase_complete(s1))
     ELSE IF c.retired_hurt
     THEN AfterReplace(replace_batsman(retire_hurt(s2, striker), 1, << >>, yes), legal)
     ELSE IF c.out \in {"striker", "non-striker"}
     THEN appeal_card_dismissal(credit_bowler(s2, c.method), c, legal, yes)
     ELSE FellThrough(s2, legal)

\* The dismissal a directly drawn loose-ball card flags (lines 1139-1172).
direct_card_dismissal(s, yes) ==
  LET next_in(w) ==
        IF w.ended THEN Returned(w.s)
        ELSE AfterReplace(
               replace_batsman(w.s, 1,
                               IF Len(w.s.current_batsmen) > 1
                               THEN Tail(w.s.current_batsmen) ELSE << >>,
                               yes),
               TRUE)
  IN next_in(increment_wicket_and_maybe_end(s, yes))

\* A loose-ball card drawn directly: the dict outcome whose type is neither
\* "Appeal" nor "No Ball" (lines 1084-1177).
ball_loose_ball(s, c, yes) ==
  LET striker == s.current_batsmen[1]
      s0 == check_batting_milestones(
              [s EXCEPT !.p_runs = [s.p_runs EXCEPT ![striker] = s.p_runs[striker] + c.batsman_runs]],
              striker, c.batsman_runs > 0)
      s1 == [s0 EXCEPT
               !.runs = s.runs + c.score_inc,
               !.extras = s.extras + c.extras_runs,
               !.extras_nb = IF c.text_no_ball \/ c.no_ball THEN s.extras_nb + 1
                             ELSE s.extras_nb,
               !.extras_b = IF c.text_bye THEN s.extras_b + c.extras_runs
                            ELSE s.extras_b,
               !.extras_lb = IF c.text_leg_bye THEN s.extras_lb + c.extras_runs
                             ELSE s.extras_lb]
      legal == ~(c.text_no_ball \/ c.no_ball)
      relabel(d) == IF d.returned THEN d ELSE FellThrough(d.s, legal)
      chase(r) ==
        IF r.returned THEN r
        ELSE IF chase_complete(r.s) THEN Returned(check_chase_complete(r.s))
        ELSE r
  IN chase(IF c.retired_hurt
           THEN AfterReplace(replace_batsman(retire_hurt(s1, striker), 1, << >>, yes), legal)
           ELSE IF c.out = "striker"
           THEN relabel(direct_card_dismissal(credit_bowler(s1, c.method), yes))
           ELSE FellThrough(s1, legal))

\* bowler_wicket_this_ball at the end of the iteration that drew outcome o,
\* when the iteration gets that far.
bowler_wicket_this_ball(o) ==
  CASE o.type = "Runs" -> FALSE
    [] o.type = "Appeal" /\ o.appeal_result = "Out" -> o.method \in BowlerMethods
    [] o.type = "Appeal" /\ o.appeal_result \in {"Not Out", "No Ball"} -> FALSE
    [] o.type = "Appeal" /\ o.appeal_result = "Loose Ball" ->
         /\ ~LOOSE_BALL_CARDS[o.card].retired_hurt
         /\ LOOSE_BALL_CARDS[o.card].out \in {"striker", "non-striker"}
         /\ LOOSE_BALL_CARDS[o.card].method \in BowlerMethods
    [] OTHER ->
         /\ ~LOOSE_BALL_CARDS[o.card].retired_hurt
         /\ LOOSE_BALL_CARDS[o.card].out = "striker"
         /\ LOOSE_BALL_CARDS[o.card].method \in BowlerMethods

\* The branch of the loop body the outcome selects. Every branch but the appeal
\* given out passes its first line of commentary through
\* _apply_hattrick_miss_prefix before it scores or dismisses (lines 896, 946,
\* 959, 1090, 1095, 1216); the appeal given out registers the bowler's wicket
\* before the wicket is counted (lines 930-935).
ball_outcome(s, o, yes) ==
  CASE o.type = "Runs" -> ball_runs(apply_hattrick_miss_prefix(s), o.runs)
    [] o.type = "Appeal" /\ o.appeal_result = "Not Out" ->
         FellThrough(apply_hattrick_miss_prefix(s), TRUE)
    [] o.type = "Appeal" /\ o.appeal_result = "Out" ->
         ball_appeal_out(credit_bowler(s, o.method), yes)
    [] o.type = "Appeal" /\ o.appeal_result = "No Ball" ->
         ball_appeal_no_ball(apply_hattrick_miss_prefix(s))
    [] o.type = "Appeal" /\ o.appeal_result = "Loose Ball" ->
         ball_appeal_loose_ball(apply_hattrick_miss_prefix(s),
                                LOOSE_BALL_CARDS[o.card], yes)
    [] OTHER -> ball_loose_ball(apply_hattrick_miss_prefix(s),
                                LOOSE_BALL_CARDS[o.card], yes)

\* ------------------------------------------------- history of the overs
\* start_over has accepted `name` for the next over.
log_over_accepted(s, name) ==
  LET l == s.over_log
      same_day == l.day = s.current_day
      same_session == same_day /\ l.session = s.session_number
  IN [s EXCEPT !.over_log =
        [ bowler |-> name, innings |-> s.innings, day |-> s.current_day,
          session |-> s.session_number, count |-> l.count + 1,
          brought_on |-> [l.brought_on EXCEPT ![name[1]] = Max(@, name[2])],
          in_session |-> IF same_session THEN l.in_session ELSE NoOvers.in_session,
          in_day |-> IF same_day THEN l.in_day ELSE NoOvers.in_day,
          in_innings_session |->
            IF same_session /\ l.innings = s.innings THEN l.in_innings_session
            ELSE NoOvers.in_session,
          in_innings_day |->
            IF same_day /\ l.innings = s.innings THEN l.in_innings_day
            ELSE NoOvers.in_day ]]

\* The over in progress is completed (the code after the loop counts it).
log_over_completed(s) ==
  [s EXCEPT !.over_log.in_session[s.bowler] = s.over_log.in_session[s.bowler] + 1,
            !.over_log.in_day[s.bowler] = s.over_log.in_day[s.bowler] + 1,
            !.over_log.in_innings_session[s.bowler] =
               s.over_log.in_innings_session[s.bowler] + 1,
            !.over_log.in_innings_day[s.bowler] =
               s.over_log.in_innings_day[s.bowler] + 1]

\* --------------------------------------------- start_over: after the loop
\* Mutant: the session break leaves the last-bowler marker as it is.
session_break_keeping_last_bowler(s) ==
  IF /\ s.session_overs_completed >= overs_per_session
     /\ (s.day_overs_scheduled = 0 \/ s.overs_in_day < s.day_overs_scheduled)
  THEN [s EXCEPT !.session_number = s.session_number + 1,
                 !.session_overs_completed = 0,
                 !.bowler_overs_session = ZeroLimits(bowling_team_id(s)),
                 !.limits_session_number = s.session_number + 1]
  ELSE s

\* Lines 1251-1292.  inp.yes and inp.card are the caller's follow-on answer and
\* the next day's card, used when the over closes an innings or a day.
session_break(s) ==
  IF /\ s.session_overs_completed >= overs_per_session
     /\ (s.day_overs_scheduled = 0 \/ s.overs_in_day < s.day_overs_scheduled)
  THEN [s EXCEPT !.session_number = s.session_number + 1,
                 !.session_overs_completed = 0,
                 !.last_bowler = NoPlayer,
                 !.bowler_overs_session = ZeroLimits(bowling_team_id(s)),
                 !.limits_session_number = s.session_number + 1]
  ELSE s

record_over(s) ==
  [s EXCEPT !.bowler_overs_session[s.bowler] = s.bowler_overs_session[s.bowler] + 1,
            !.bowler_overs_today[s.bowler] = s.bowler_overs_today[s.bowler] + 1,
            !.overs_completed = s.overs_completed + 1,
            !.overs_in_day = s.overs_in_day + 1,
            !.session_overs_completed = s.session_overs_completed + 1,
            !.last_bowler = s.bowler]

\* Mutant: the batters do not change ends at the end of the over.
swap_strike_never(s) == s

swap_strike(s) ==
  IF Len(s.current_batsmen) = 2
  THEN [s EXCEPT !.current_batsmen = << s.current_batsmen[2], s.current_batsmen[1] >>]
  ELSE s

after_loop(s, inp) ==
  LET stumps(s4) ==
        IF /\ ~s4.match_over
           /\ s4.day_overs_scheduled > 0
           /\ s4.overs_in_day >= s4.day_overs_scheduled
        THEN start_new_day(s4, inp.card)
        ELSE s4
      all_out(s3) ==
        IF chase_complete(s3) THEN check_chase_complete(s3)
        ELSE stumps(IF s3.wickets_taken >= 10 THEN end_innings(s3, FALSE, inp.yes)
                    ELSE s3)
      leave(s2) == all_out([s2 EXCEPT !.pc = "idle", !.ball = 0])
  IN leave(session_break(record_over(log_over_completed(swap_strike(s)))))

\* ------------------------------------------- start_over: one loop iteration
loop_exits(s) ==
  \/ s.ball >= BallsPerOver
  \/ s.current_batsmen = << >>

\* ------------------------------------------- start_over: before the loop
\* Whether start_over moves on to a new day instead of bowling (lines 816-820).
day_is_over(s) ==
  s.day_overs_scheduled = 0 \/ s.overs_in_day >= s.day_overs_scheduled

\* The per-session limits reset at the top of start_over (lines 826-830).
reset_limits_for_session(s) ==
  IF s.limits_session_number # s.session_number
  THEN [s EXCEPT !.bowler_overs_session = ZeroLimits(bowling_team_id(s)),
                 !.last_bowler = NoPlayer,
                 !.limits_session_number = s.session_number]
  ELSE s

\* Mutant: the limit of overs in a session is not checked.
bowler_accepted_without_session_limit(s, name) ==
  /\ name \in Members(bowling_team_id(s))
  /\ Get(s.bowler_overs_today, name, 0) < max_overs_per_bowler_day
  /\ name # s.last_bowler

\* Mutant: the bowler of the previous over is not refused.
bowler_accepted_after_own_over(s, name) ==
  /\ name \in Members(bowling_team_id(s))
  /\ Get(s.bowler_overs_session, name, 0) < max_overs_per_bowler_session
  /\ Get(s.bowler_overs_today, name, 0) < max_overs_per_bowler_day

\* Whether start_over accepts bowler_name (lines 832-854); s is the state after
\* reset_limits_for_session.
bowler_accepted(s, name) ==
  /\ name \in Members(bowling_team_id(s))
  /\ Get(s.bowler_overs_session, name, 0) < max_overs_per_bowler_session
  /\ Get(s.bowler_overs_today, name, 0) < max_overs_per_bowler_day
  /\ name # s.last_bowler

\* Mutant: a finished match is not refused.
start_over_on_finished_match(s, name, inp) ==
  IF day_is_over(s) THEN start_new_day(s, inp.card)
  ELSE
    LET s1 == reset_limits_for_session(s)
        found == name \in Members(bowling_team_id(s1))
        s2 == [s1 EXCEPT !.bowler = IF found THEN name ELSE NoPlayer]
        s3 == [s2 EXCEPT
                 !.bowler_overs_session = SetDefault(s2.bowler_overs_session, name, 0),
                 !.bowler_overs_today = SetDefault(s2.bowler_overs_today, name, 0)]
    IN IF ~found THEN s2
       ELSE IF ~bowler_accepted(s1, name) THEN s3
       ELSE LET a == log_over_accepted(
                        [s3 EXCEPT !.current_over_legal_balls = 0,
                                   !.limits_session_number = s3.session_number,
                                   !.pc = "over", !.ball = 0],
                        name)
            IN IF loop_exits(a) THEN after_loop(a, inp) ELSE a

\* start_over up to its ball loop (lines 811-868).  inp.card is the card of the
\* new day when the call only moves on to the next day.
start_over(s, name, inp) ==
  IF s.match_over THEN s
  ELSE IF day_is_over(s) THEN start_new_day(s, inp.card)
  ELSE
    LET s1 == reset_limits_for_session(s)
        found == name \in Members(bowling_team_id(s1))
        s2 == [s1 EXCEPT !.bowler = IF found THEN name ELSE NoPlayer]
        s3 == [s2 EXCEPT
                 !.bowler_overs_session = SetDefault(s2.bowler_overs_session, name, 0),
                 !.bowler_overs_today = SetDefault(s2.bowler_overs_today, name, 0)]
    IN IF ~found THEN s2
       ELSE IF ~bowler_accepted(s1, name) THEN s3
       ELSE LET a == log_over_accepted(
                        [s3 EXCEPT !.current_over_legal_balls = 0,
                                   !.limits_session_number = s3.session_number,
                                   !.pc = "over", !.ball = 0],
                        name)
            IN IF loop_exits(a) THEN after_loop(a, inp) ELSE a

\* One iteration of the while loop (lines 865-1249), followed by the code after
\* the loop when this iteration is the last one.
iteration(s, o, inp) ==
  LET tail(s1) ==
        IF \/ s1.wickets_taken >= 10
           \/ Len(s1.current_batsmen) < 2
           \/ loop_exits(s1)
        THEN after_loop(s1, inp)
        ELSE s1
      counted(s1, legal) ==
        IF legal
        THEN [s1 EXCEPT !.ball = s1.ball + 1,
                        !.current_over_legal_balls = s1.ball + 1]
        ELSE s1
      count(r) ==
        IF r.returned THEN r.s
        ELSE tail(counted(IF bowler_wicket_this_ball(o) THEN r.s
                          ELSE break_hattrick_chain(r.s),
                          r.legal))
  IN count(ball_outcome([s EXCEPT !.match_output = << >>, !.milestone_said = ""],
                        o, inp.yes))

RECURSIVE iterations(_, _, _, _)
\* n successive iterations that draw the same outcome, or fewer when the over
\* ends: the first n \div 2 of them, then the rest.
iterations(s, o, n, inp) ==
  IF n = 0 \/ s.pc # "over" THEN s
  ELSE IF n = 1 THEN iteration(s, o, inp)
  ELSE iterations(iterations(s, o, n \div 2, inp), o, n - (n \div 2), inp)

\* ----------------------------------------------------------------- actions
\* What a specification lets the environment choose from: the outcomes
\* simulate_ball may return, how many equal outcomes in a row one step applies,
\* the condition cards, the bowlers the caller may name, and its caps.
Input(yes, card) == [yes |-> yes, card |-> MATCH_CONDITION_TEMPLATES[card]]

\* The names the caller may pass to start_over: the first n players of the
\* bowling side, brought on in the order of the list (a player may be named once
\* the players before them have bowled), and a name that is on neither list.
Names(s, n) ==
  LET side == bowling_team_id(s)
      last == IF s.over_log.brought_on[side] < n
              THEN s.over_log.brought_on[side] + 1 ELSE n
  IN {<<side, i>> : i \in 1..last} \cup {NoPlayer}

\* The answers and cards worth enumerating: the follow-on question is put only
\* when innings 2 closes, and a card is drawn only when a day begins.
YesChoices(s) == IF s.innings = 2 THEN BOOLEAN ELSE {FALSE}
CardChoices(P, new_day) == IF new_day THEN P.cards ELSE {1}

WithinCaps(P, t) ==
  /\ t.runs \in P.runs
  /\ Len(t.retired_hurt_pending) + Len(t.retired_hurt_returning) <= P.max_retired
  /\ t.over_log.count <= P.max_overs
  /\ t.innings <= P.max_innings

\* CricketGUI.simulate_over -> Match.start_over(bowler_name), up to the loop.
StartOver(P) ==
  /\ pc = "idle"
  /\ \E name \in Names(Self, P.bowlers), card \in CardChoices(P, day_is_over(Self)) :
       LET t == start_over(Self, name, Input(FALSE, card)) IN
       /\ WithinCaps(P, t)
       /\ Store(t)

\* One iteration of the ball loop of start_over (and the code after the loop
\* when the iteration is the over's last).
Ball(P) ==
  /\ pc = "over"
  /\ \E o \in P.outcomes, n \in P.repeats, yes \in YesChoices(Self),
        card \in CardChoices(P, overs_in_day + 1 >= day_overs_scheduled) :
       LET t == iterations(Self, o, n, Input(yes, card)) IN
       /\ n = 1 \/ runs <= P.burst_until
       /\ WithinCaps(P, t)
       /\ Store(t)

\* CricketGUI.declare_innings -> Match.declare_innings.
Declare(P) ==
  /\ pc = "idle"
  /\ ball_by_ball_playing => playback_idx > 0
  /\ \E confirm \in BOOLEAN, yes \in YesChoices(Self) :
       LET t == gui_declare_innings(Self, confirm, yes) IN
       /\ WithinCaps(P, t)
       /\ Store(t)

\* Match._bowler_can_bowl for the player of that name (None when the name
\* is not on the bowling side).
bowler_can_bowl(s, name) ==
  /\ name \in Members(bowling_team_id(s))
  /\ Get(s.bowler_overs_session, name, 0) < max_overs_per_bowler_session
  /\ Get(s.bowler_overs_today, name, 0) < max_overs_per_bowler_day
  /\ s.last_bowler # name

\* CricketGUI.simulate_over: enabled is the ball-by-ball checkbox. In
\* ball-by-ball mode the flag is set, Match.start_over simulates the over with
\* its output captured, and the replay starts at chunk 0.
simulate_over(s, name, inp, enabled) ==
  IF s.ball_by_ball_playing THEN s
  ELSE IF ~bowler_can_bowl(s, name) THEN s
  ELSE IF enabled
  THEN [start_over(s, name, inp) EXCEPT !.ball_by_ball_playing = TRUE,
                                        !.playback_idx = 0]
  ELSE start_over(s, name, inp)

\* CricketGUI._play_ball_by_ball(chunks, idx): more says whether idx is below
\* len(chunks). The last call clears the flag; the others show a chunk and
\* schedule the next call with root.after.
play_ball_by_ball(s, more) ==
  IF ~more THEN [s EXCEPT !.ball_by_ball_playing = FALSE, !.playback_idx = 0]
  ELSE [s EXCEPT !.playback_idx = s.playback_idx + 1]

\* The "Simulate over" button.
SimulateOver(P) ==
  /\ pc = "idle"
  /\ ball_by_ball_playing => playback_idx > 0
  /\ \E name \in Names(Self, P.bowlers), card \in CardChoices(P, day_is_over(Self)),
        enabled \in BOOLEAN :
       LET t == simulate_over(Self, name, Input(FALSE, card), enabled) IN
       /\ WithinCaps(P, t)
       /\ Store(t)

\* A call of _play_ball_by_ball: the first one is made by simulate_over when
\* start_over has returned, the later ones by the timer.
PlayChunk ==
  /\ pc = "idle"
  /\ ball_by_ball_playing
  /\ \E more \in BOOLEAN :
       /\ more => playback_idx < MaxChunks
       /\ Store(play_ball_by_ball(Self, more))

InitFor(P) ==
  \E card \in P.cards :
    LET t == start_new_day(Constructed, MATCH_CONDITION_TEMPLATES[card]) IN
    /\ innings = t.innings /\ runs = t.runs /\ wickets_taken = t.wickets_taken
    /\ overs_completed = t.overs_completed
    /\ session_overs_completed = t.session_overs_completed
    /\ session_number = t.session_number
    /\ limits_session_number = t.limits_session_number
    /\ last_bowler = t.last_bowler /\ current_batsmen = t.current_batsmen
    /\ next_batsman_index = t.next_batsman_index /\ bowler = t.bowler
    /\ bowler_overs_session = t.bowler_overs_session
    /\ bowler_overs_today = t.bowler_overs_today
    /\ match_over = t.match_over /\ result_summary = t.result_summary
    /\ extras = t.extras /\ extras_nb = t.extras_nb /\ extras_b = t.extras_b
    /\ extras_lb = t.extras_lb
    /\ innings_summaries = t.innings_summaries
    /\ innings_batting_team = t.innings_batting_team
    /\ follow_on_enforced = t.follow_on_enforced
    /\ current_over_legal_balls = t.current_over_legal_balls
    /\ retired_hurt_pending = t.retired_hurt_pending
    /\ retired_hurt_returning = t.retired_hurt_returning
    /\ retired_hurt_priority = t.retired_hurt_priority
    /\ day_counter = t.day_counter /\ current_day = t.current_day
    /\ day_overs_scheduled = t.day_overs_scheduled /\ overs_in_day = t.overs_in_day
    /\ day_no_play = t.day_no_play /\ day_overs_lost_start = t.day_overs_lost_start
    /\ day_overs_lost_end = t.day_overs_lost_end
    /\ current_conditions = t.current_conditions
    /\ innings_declared = t.innings_declared
    /\ hattrick_count = t.hattrick_count
    /\ hattrick_pending_bowler = t.hattrick_pending_bowler
    /\ last_ball_was_bowler_wicket = t.last_ball_was_bowler_wicket
    /\ last_wicket_bowler = t.last_wicket_bowler
    /\ match_output = t.match_output
    /\ p_runs = t.p_runs /\ p_wickets = t.p_wickets /\ fow = t.fow
    /\ milestones_awarded = t.milestones_awarded
    /\ milestone_said = t.milestone_said
    /\ ball_by_ball_playing = t.ball_by_ball_playing
    /\ playback_idx = t.playback_idx
    /\ pc = t.pc /\ ball = t.ball
    /\ follow_on_asked = t.follow_on_asked /\ over_log = t.over_log

\* ----------------------------------------------------------- specifications
\* Ball by ball: every outcome simulate_ball can return, one over at a time.
BallByBall ==
  [ outcomes |-> Outcomes, repeats |-> {1}, cards |-> {1},
    bowlers |-> NumBowlers, max_overs |-> MaxOvers, runs |-> 0..MaxRuns,
    max_retired |-> MaxRetired, max_innings |-> 4, burst_until |-> 0 ]

Init == InitFor(BallByBall)
Next == StartOver(BallByBall) \/ Ball(BallByBall) \/ Declare(BallByBall)
Spec == Init /\ [][Next]_vars

\* Wickets: appeals given out, the run-out card that scores two and the
\* retired-hurt card, long enough for a side to be bowled out.
Wickets ==
  [ outcomes |-> { AppealOutcome("Out", "Bowled", 0),
                   LooseBallOutcome(1), LooseBallOutcome(10) },
    repeats |-> {1}, cards |-> {1},
    bowlers |-> NumBowlers, max_overs |-> MaxOversWickets,
    runs |-> 0..MaxRunsWickets, max_retired |-> MaxRetired, max_innings |-> 4,
    burst_until |-> 0 ]

InitWickets == InitFor(Wickets)
NextWickets == StartOver(Wickets) \/ Ball(Wickets) \/ Declare(Wickets)
SpecWickets == InitWickets /\ [][NextWickets]_vars

\* Workload: overs of six dot balls, four bowlers a side, days of 16, 11, 8
\* and no overs, long enough for a session break and a change of day.
Workload ==
  [ outcomes |-> { AppealOutcome("Not Out", "", 0) }, repeats |-> {BallsPerOver},
    cards |-> {9, 15},
    bowlers |-> NumBowlersWork, max_overs |-> MaxOversWork, runs |-> {0},
    max_retired |-> 0, max_innings |-> 3, burst_until |-> 0 ]

InitWork == InitFor(Workload)
NextWork == StartOver(Workload) \/ Ball(Workload) \/ Declare(Workload)
SpecWork == InitWork /\ [][NextWork]_vars

\* Follow-on: no-balls and dot balls, one at a time or Burst in a row, so that a
\* lead of follow_on_threshold is within reach.
FollowOn ==
  [ outcomes |-> { AppealOutcome("No Ball", "", 0), AppealOutcome("Not Out", "", 0) },
    repeats |-> {1, Burst}, cards |-> {1},
    bowlers |-> NumBowlers, max_overs |-> MaxOversFollowOn,
    runs |-> (0..MaxSingles) \cup (Burst..(Burst + MaxSingles)),
    max_retired |-> 0, max_innings |-> 4, burst_until |-> MaxSingles ]

InitFollowOn == InitFor(FollowOn)
NextFollowOn == StartOver(FollowOn) \/ Ball(FollowOn) \/ Declare(FollowOn)
SpecFollowOn == InitFollowOn /\ [][NextFollowOn]_vars

\* Days: overs of six dot balls on days of 8 overs and days without play, long
\* enough for the fifth day to end.
Days ==
  [ outcomes |-> { AppealOutcome("Not Out", "", 0) }, repeats |-> {BallsPerOver},
    cards |-> {5, 9},
    bowlers |-> NumBowlersWork, max_overs |-> MaxOversDays, runs |-> {0},
    max_retired |-> 0, max_innings |-> 2, burst_until |-> 0 ]

InitDays == InitFor(Days)
NextDays == StartOver(Days) \/ Ball(Days) \/ Declare(Days)
SpecDays == InitDays /\ [][NextDays]_vars

\* Dice: the outcomes come from simulate_ball, for every rating and every roll
\* of the dice; one over in a match of two innings.
Dice ==
  [ outcomes |-> DiceOutcomes, repeats |-> {1}, cards |-> {1},
    bowlers |-> 1, max_overs |-> MaxOversDice, runs |-> 0..MaxRunsDice,
    max_retired |-> 0, max_innings |-> 2, burst_until |-> 0 ]

InitDice == InitFor(Dice)
NextDice == StartOver(Dice) \/ Ball(Dice) \/ Declare(Dice)
SpecDice == InitDice /\ [][NextDice]_vars

\* Returns: half overs and overs of appeals turned down, of appeals given out
\* and of the retired-hurt card, on days of 8 overs, so that batters who retire
\* hurt see the next day begin.
Returns ==
  [ outcomes |-> { AppealOutcome("Not Out", "", 0), LooseBallOutcome(10) },
    repeats |-> {BallsPerOver \div 2, BallsPerOver}, cards |-> {9},
    bowlers |-> NumBowlersWork, max_overs |-> MaxOversReturns, runs |-> {0},
    max_retired |-> MaxRetiredReturns, max_innings |-> 2, burst_until |-> 0 ]

InitReturns == InitFor(Returns)
NextReturns == StartOver(Returns) \/ Ball(Returns) \/ Declare(Returns)
SpecReturns == InitReturns /\ [][NextReturns]_vars

\* Playback: overs of appeals turned down, simulated at once or replayed ball
\* by ball, in a match of two innings.
Playback ==
  [ outcomes |-> { AppealOutcome("Not Out", "", 0) }, repeats |-> {1, BallsPerOver},
    cards |-> {1},
    bowlers |-> NumBowlers, max_overs |-> MaxOversPlayback, runs |-> {0},
    max_retired |-> 0, max_innings |-> 2, burst_until |-> 0 ]

InitPlayback == InitFor(Playback)
NextPlayback ==
  SimulateOver(Playback) \/ Ball(Playback) \/ PlayChunk \/ Declare(Playback)
SpecPlayback == InitPlayback /\ [][NextPlayback]_vars

\* Milestones: sixes, ball by ball or an over at a time while the innings has
\* no more than two overs of them, in a match of three innings, so that an
\* opener passes 50 in the first innings and again in the third.
Milestones ==
  [ outcomes |-> { RunsOutcome(6) }, repeats |-> {1, BallsPerOver}, cards |-> {1},
    bowlers |-> NumBowlers, max_overs |-> MaxOversMilestones,
    runs |-> 0..MaxRunsMilestones, max_retired |-> 0, max_innings |-> 3,
    burst_until |-> 6 * BallsPerOver ]

InitMilestones == InitFor(Milestones)
NextMilestones == StartOver(Milestones) \/ Ball(Milestones) \/ Declare(Milestones)
SpecMilestones == InitMilestones /\ [][NextMilestones]_vars

\* Conditions: overs of six dot balls on days whose card changes the modifiers
\* after the eighth over or after the fifth, and on days without play.
Conditions ==
  [ outcomes |-> { AppealOutcome("Not Out", "", 0) }, repeats |-> {BallsPerOver},
    cards |-> {2, 4, 5},
    bowlers |-> NumBowlersWork, max_overs |-> MaxOversConditions, runs |-> {0},
    max_retired |-> 0, max_innings |-> 2, burst_until |-> 0 ]

InitConditions == InitFor(Conditions)
NextConditions == StartOver(Conditions) \/ Ball(Conditions) \/ Declare(Conditions)
SpecConditions == InitConditions /\ [][NextConditions]_vars

\* Termination: half overs and overs of dot balls, on days of 8 overs and days
\* without play, with one bowler more than a session needs, so that a bowler
\* within the limits is there for every over; the caller never declares.  Five
\* days of 8 overs are all the overs such a match can have: the cap on the overs
\* never stops a step.
Termination ==
  [ outcomes |-> { AppealOutcome("Not Out", "", 0) },
    repeats |-> {BallsPerOver \div 2, BallsPerOver}, cards |-> {5, 9},
    bowlers |-> NumBowlersWork + 1, max_overs |-> MAX_DAYS * overs_per_session,
    runs |-> {0}, max_retired |-> 0, max_innings |-> 1, burst_until |-> 0 ]

NextTermination == StartOver(Termination) \/ Ball(Termination)

\* The match with a caller who keeps going and dice that keep rolling: weak
\* fairness of the ball loop (an over that has begun goes on, line 865) and of
\* the requests start_over acts on (an over begins, or the next day, or the
\* draw is declared: lines 816-820 and 856-864), each written out as
\* "infinitely often not enabled, or infinitely often taken", the enabling
\* condition being the guard of the action.
SpecTermination ==
  /\ InitFor(Termination)
  /\ [][NextTermination]_vars
  /\ \/ []<>~(/\ pc = "over"
              /\ \E o \in Termination.outcomes, n \in Termination.repeats,
                    yes \in YesChoices(Self),
                    card \in CardChoices(Termination,
                                         overs_in_day + 1 >= day_overs_scheduled) :
                   LET within(t) == WithinCaps(Termination, t) /\ t # Self
                   IN /\ n = 1 \/ runs <= Termination.burst_until
                      /\ within(iterations(Self, o, n, Input(yes, card))))
     \/ []<><<Ball(Termination)>>_vars
  /\ \/ []<>~(/\ pc = "idle"
              /\ \E name \in Names(Self, Termination.bowlers),
                    card \in CardChoices(Termination, day_is_over(Self)) :
                   LET acted(t) ==
                         /\ WithinCaps(Termination, t)
                         /\ t.pc = "over" \/ t.day_counter # day_counter \/ t.match_over
                   IN acted(start_over(Self, name, Input(FALSE, card))))
     \/ []<><<StartOver(Termination)
              /\ (pc' = "over" \/ day_counter' # day_counter \/ match_over')>>_vars

\* ------------------------------------------------------------------- claims
\* The runs of the batting side's batters in the current innings.
batting_runs(s) ==
  SumSeq([i \in 1..TeamSize |-> s.p_runs[team(batting_team_id(s))[i]]])

\* C1: between balls and in every completed-innings summary, the runs credited
\* to the batting side's batters plus the extras equal the team total.
C1_BattersPlusExtrasIsTotal ==
  /\ batting_runs(Self) + extras = runs
  /\ \A k \in DOMAIN innings_summaries :
       SumSeq(innings_summaries[k].batting_rows) + innings_summaries[k].extras
         = innings_summaries[k].runs

\* C2 as stated: no bowler completes more than 2 overs in one session or more
\* than 4 in one day, innings changes included.
C2_OversInSessionAndDay ==
  \A p \in Player :
    /\ over_log.in_session[p] <= max_overs_per_bowler_session
    /\ over_log.in_day[p] <= max_overs_per_bowler_day

\* C2 as amended: no bowler completes more than 2 overs in one session of one
\* innings or more than 4 in one day of one innings (a new innings resets both
\* allocations).
C2_OversInSessionAndDayOfInnings ==
  \A p \in Player :
    /\ over_log.in_innings_session[p] <= max_overs_per_bowler_session
    /\ over_log.in_innings_day[p] <= max_overs_per_bowler_day

\* C2 witness: a bowler has completed 4 overs in one day of one innings, 2 of
\* them in the current session.
C2_BowlerAtBothLimits ==
  \E p \in Player :
    /\ over_log.in_innings_day[p] = max_overs_per_bowler_day
    /\ over_log.in_innings_session[p] = max_overs_per_bowler_session

\* An over is accepted directly after another over of the match.
NextOverAccepted ==
  /\ over_log.count > 0
  /\ over_log'.count = over_log.count + 1

\* C3 as stated: two overs bowled one directly after the other, also across a
\* session break, a day change or an innings change, have different bowlers.
C3_NoOversInSuccession ==
  [][NextOverAccepted => over_log'.bowler # over_log.bowler]_vars

\* C3 as amended: two overs bowled one directly after the other in the same
\* session of the same day and innings have different bowlers.
C3_NoOversInSuccessionInSession ==
  [][ ( /\ NextOverAccepted
        /\ over_log'.innings = over_log.innings
        /\ over_log'.day = over_log.day
        /\ over_log'.session = over_log.session )
      => over_log'.bowler # over_log.bowler ]_vars

\* C3 witness: an over is in progress directly after a completed over of the
\* same session and innings, bowled by another player.
C3_SecondOverOfSession ==
  /\ pc = "over"
  /\ last_bowler # NoPlayer
  /\ bowler # last_bowler
  /\ over_log.in_innings_session[last_bowler] >= 1

\* C4: the wicket count of the current innings and of every completed innings is
\* between 0 and 10, and a dismissal does not take it beyond 10.
C4_WicketsBetween0And10 ==
  /\ wickets_taken \in 0..10
  /\ \A k \in DOMAIN innings_summaries : innings_summaries[k].wickets \in 0..10
  /\ increment_wicket_and_maybe_end(Self, FALSE).s.wickets_taken \in 0..10

\* C4 witness: ten wickets are down.
C4_TenWicketsDown == wickets_taken = 10

\* A ball of the over in progress closes the innings (its summary is recorded).
BallClosesInnings ==
  /\ pc = "over"
  /\ innings \notin DOMAIN innings_summaries
  /\ innings \in DOMAIN innings_summaries'

\* C5 as stated: short of a declaration an innings closes exactly when its tenth
\* wicket falls: on that ball, and never with fewer than 10 wickets down.
C5_ClosesExactlyAtTenWickets ==
  /\ [](wickets_taken = 10 => match_over)
  /\ [][BallClosesInnings => innings_summaries'[innings].wickets = 10]_vars

\* C5 as amended: short of a declaration an innings closes on the ball of its
\* tenth wicket, or with fewer wickets down on a ball at which a batter leaves
\* and no unused or returning batter is left; no other ball closes it.
C5_ClosesAtTenWicketsOrNoBatterLeft ==
  /\ [](wickets_taken = 10 => match_over)
  /\ [][ BallClosesInnings =>
           \/ innings_summaries'[innings].wickets = 10
           \/ /\ no_batsmen_left(Self)
              /\ Len(current_batsmen) = 2 ]_vars

\* C5 witness: an innings was closed by its tenth wicket, with no declaration.
C5_BowledOut ==
  /\ ~innings_declared
  /\ \E k \in DOMAIN innings_summaries : innings_summaries[k].wickets = 10

\* The lead of the side that batted first, once innings 1 and 2 are closed.
first_innings_lead(s) ==
  Get(s.innings_summaries, 1, [runs |-> 0]).runs
  - Get(s.innings_summaries, 2, [runs |-> 0]).runs

\* C6: the follow-on question is put only on the step that closes innings 2, with
\* a lead of at least 200, and at most once in a match; the follow-on is enforced
\* only if it was put under that condition.
C6_FollowOnAskedOnlyWithLead ==
  /\ [](follow_on_asked <= 1)
  /\ [](follow_on_enforced =>
          /\ follow_on_asked = 1
          /\ {1, 2} \subseteq DOMAIN innings_summaries
          /\ first_innings_lead(Self) >= follow_on_threshold)
  /\ [][ follow_on_asked' # follow_on_asked =>
           /\ follow_on_asked = 0
           /\ innings = 2 /\ innings' = 3
           /\ 2 \notin DOMAIN innings_summaries
           /\ 2 \in DOMAIN innings_summaries'
           /\ first_innings_lead(Self') >= follow_on_threshold ]_vars

\* C6 witness: the follow-on was enforced on a lead of exactly 200.
C6_EnforcedOnThreshold ==
  /\ follow_on_enforced
  /\ first_innings_lead(Self) = follow_on_threshold

\* The match state but for the fields that name a side or its players.
side_free(s) ==
  [s EXCEPT !.innings_batting_team = << >>, !.follow_on_enforced = FALSE,
            !.current_batsmen = << >>, !.p_runs = << >>,
            !.bowler_overs_session = << >>, !.bowler_overs_today = << >>]

ChasingSide == Get(innings_batting_team, 4, 2)
Target == totals_by_team_completed(Self)[3 - ChasingSide]
ChaseBefore == totals_by_team_completed(Self)[ChasingSide]

\* A ball of innings 4 takes the batting side's total past the other side's.
BallOvertakes ==
  /\ innings = 4 /\ pc = "over" /\ ~match_over
  /\ ChaseBefore + runs <= Target
  /\ ChaseBefore + runs' > Target

\* C8: the ball of innings 4 on which the batting side's total first exceeds the
\* other side's ends the match with that side winning by 10 minus the wickets
\* taken.
C8_ChaseWonByWickets ==
  [][ BallOvertakes =>
        /\ match_over'
        /\ result_summary' = Win(ChasingSide, "wickets", 10 - wickets_taken') ]_vars

\* C9: the ball of innings 4 on which the batting side's total overtakes the
\* target ends the match and the over there and then, and no ball follows.
C9_ChaseEndsMatchMidOver ==
  /\ [](match_over => pc = "idle")
  /\ [][ BallOvertakes =>
           /\ match_over'
           /\ pc' = "idle"
           /\ result_summary'.type = "win"
           /\ result_summary'.winner = ChasingSide ]_vars

\* C9 witness: the chase was won in the middle of an over, which was left
\* unfinished.
C9_WonMidOver ==
  /\ match_over /\ innings = 4
  /\ result_summary.margin_kind = "wickets"
  /\ current_over_legal_balls \in 1..(BallsPerOver - 2)
  /\ overs_completed < over_log.count

\* Innings 3, a follow-on innings, closes on this step.
FollowOnInningsCloses ==
  /\ innings = 3 /\ follow_on_enforced
  /\ 3 \notin DOMAIN innings_summaries
  /\ 3 \in DOMAIN innings_summaries'

\* What the side following on made in innings 2 and 3, and the enforcing side in
\* innings 1, once innings 3 is closed.
following_on_total(s) == s.innings_summaries[2].runs + s.innings_summaries[3].runs
enforcing_total(s) == s.innings_summaries[1].runs

\* C10 as stated: when a follow-on innings 3 closes with the side following on not
\* ahead (behind or level), the match ends as an innings victory of the enforcing
\* side by the difference, and innings 4 is not played.
C10_InningsVictoryUnlessAhead ==
  [][ (FollowOnInningsCloses /\ following_on_total(Self') <= enforcing_total(Self')) =>
        /\ match_over' /\ innings' = 3
        /\ result_summary' =
             Win(1, "innings", enforcing_total(Self') - following_on_total(Self')) ]_vars

\* C10 as amended: when a follow-on innings 3 closes with the side following on
\* behind, the match ends as an innings victory of the enforcing side by the
\* difference and innings 4 is not played; when it closes level or ahead, innings
\* 4 begins.
C10_InningsVictoryWhenBehind ==
  [][ FollowOnInningsCloses =>
        IF following_on_total(Self') < enforcing_total(Self')
        THEN /\ match_over' /\ innings' = 3
             /\ result_summary' =
                  Win(1, "innings", enforcing_total(Self') - following_on_total(Self'))
        ELSE ~match_over' /\ innings' = 4 ]_vars

\* C10 witness: the match ended as an innings victory after the follow-on.
C10_WonByAnInnings ==
  /\ match_over /\ innings = 3 /\ follow_on_enforced
  /\ result_summary.margin_kind = "innings"
  /\ result_summary.margin > 0

\* What side t made in the four completed innings, innings by innings.
side_total(s, t) ==
  LET made(k) == IF s.innings_batting_team[k] = t
                 THEN s.innings_summaries[k].runs ELSE 0
  IN made(1) + made(2) + made(3) + made(4)

\* The result the totals of the two sides call for.
result_on_runs(t1, t2) ==
  IF t1 > t2 THEN Win(1, "runs", t1 - t2)
  ELSE IF t2 > t1 THEN Win(2, "runs", t2 - t1)
  ELSE Tie

\* C11: once all four innings are completed the match is over and its result is
\* the one the two sides' totals call for, each innings counted for the side that
\* batted it: the higher total wins by the difference in runs, level totals tie.
C11_ResultOnRunsAfterFourInnings ==
  4 \in DOMAIN innings_summaries =>
    /\ match_over
    /\ result_summary = result_on_runs(side_total(Self, 1), side_total(Self, 2))

\* C11 witness: four innings were completed after a follow-on (the side batting
\* second batted innings 2 and 3) and the match was won on runs.
C11_WonOnRunsAfterFollowOn ==
  /\ 4 \in DOMAIN innings_summaries
  /\ follow_on_enforced
  /\ result_summary.type = "win"
  /\ result_summary.margin_kind = "runs"
  /\ result_summary.margin > 0

\* start_new_day is called on this step (it sets current_day to the day counter).
NewDayCalled == current_day' # current_day

\* The fields a condition card sets.
day_conditions(s) ==
  << s.day_no_play, s.day_overs_lost_start, s.day_overs_lost_end,
     s.day_overs_scheduled >>

\* C12: a new day started with the day counter beyond 5 ends the match as a draw
\* and draws no condition card; a new day within the limit leaves the match live;
\* so overs are accepted and balls bowled on days 1 to 5 only.
C12_DrawnWhenDaysAreUp ==
  /\ [](over_log.count > 0 => over_log.day \in 1..MAX_DAYS)
  /\ [](pc = "over" => current_day \in 1..MAX_DAYS)
  /\ [](result_summary.type = "draw" => match_over /\ current_day = MAX_DAYS + 1)
  /\ [][ NewDayCalled =>
           IF day_counter > MAX_DAYS
           THEN /\ match_over' /\ result_summary' = Draw
                /\ day_conditions(Self') = day_conditions(Self)
                /\ day_counter' = day_counter
           ELSE /\ ~match_over'
                /\ current_day' = day_counter
                /\ day_counter' = day_counter + 1 ]_vars

\* C12 witness: the match was drawn at stumps on the fifth day, on which overs
\* were bowled.
C12_DrawnAfterFiveDays ==
  /\ match_over /\ result_summary = Draw
  /\ over_log.day = MAX_DAYS
  /\ overs_in_day = day_overs_scheduled
  /\ overs_in_day > 0

\* The request start_over(name) breaks a rule: the name is not on the bowling
\* side, or the bowler has 2 overs in the session or 4 in the day, or bowled the
\* previous over.
breaks_a_rule(s, name) ==
  \/ name \notin Members(bowling_team_id(s))
  \/ Get(s.bowler_overs_session, name, 0) >= max_overs_per_bowler_session
  \/ Get(s.bowler_overs_today, name, 0) >= max_overs_per_bowler_day
  \/ name = s.last_bowler

\* C13: between overs of a live match, on a day with overs left, a start_over
\* request that breaks a rule leaves every field of the match as it was.
C13_RejectedOverChangesNothing ==
  (pc = "idle" /\ ~match_over /\ ~day_is_over(Self)) =>
    \A name \in Player \cup {NoPlayer} :
      breaks_a_rule(Self, name) => start_over(Self, name, Input(FALSE, 1)) = Self

\* The innings of s is closed in t as an innings of ten wickets is: it has its
\* summary, and either the next innings has begun at 0 for 0 or the match is over.
closed_in(s, t) ==
  /\ s.innings \in DOMAIN t.innings_summaries
  /\ t.innings_summaries[s.innings].runs = s.runs
  /\ t.innings_summaries[s.innings].wickets = s.wickets_taken
  /\ \/ t.match_over /\ t.innings = s.innings
     \/ /\ ~t.match_over /\ t.innings = s.innings + 1
        /\ t.runs = 0 /\ t.wickets_taken = 0 /\ t.overs_completed = 0

\* C14: between overs of a live match fewer than 10 wickets are down and a
\* confirmed declaration closes the innings there and then; a declaration
\* requested once the match is over, or not confirmed, changes nothing.
C14_DeclarationClosesLiveInnings ==
  pc = "idle" =>
    \A yes \in BOOLEAN :
      /\ gui_declare_innings(Self, FALSE, yes) = Self
      /\ IF match_over
         THEN gui_declare_innings(Self, TRUE, yes) = Self
         ELSE /\ wickets_taken < 10
              /\ innings \notin DOMAIN innings_summaries
              /\ closed_in(Self, gui_declare_innings(Self, TRUE, yes))

\* C14 witness: the match is over and its last innings was closed by a
\* declaration with wickets down and at least two in hand.
C14_DeclaredAndOver ==
  /\ match_over /\ pc = "idle" /\ innings_declared
  /\ innings \in DOMAIN innings_summaries
  /\ innings_summaries[innings].wickets \in 1..8
  /\ result_summary.margin_kind = "runs"

\* The result, innings number, score, wickets and overs of the match.
scoreboard(s) ==
  << s.match_over, s.result_summary, s.innings, s.runs, s.wickets_taken,
     s.overs_completed >>

\* C15: once the match is over no step changes match_over, the result, the
\* innings number, the score, the wickets or the overs, no over is in progress,
\* and every start_over request (also one that would begin a new day) and every
\* declaration request returns with the match as it was.
C15_FrozenOnceOver ==
  /\ [][match_over => (match_over' /\ scoreboard(Self') = scoreboard(Self))]_vars
  /\ [](match_over =>
          /\ pc = "idle"
          /\ \A name \in Player \cup {NoPlayer}, card \in CardIds, yes \in BOOLEAN :
               /\ start_over(Self, name, Input(yes, card)) = Self
               /\ gui_declare_innings(Self, TRUE, yes) = Self)

\* C15 witness: the match is over with a winner, before the fifth day is out.
C15_OverWithAWinner ==
  /\ match_over
  /\ result_summary.type = "win"
  /\ day_counter <= MAX_DAYS

\* C16: the summaries are those of the closed innings (the current innings has
\* one only when the match is over); the summary of innings k appears in the
\* step in which innings k is closed, with the score and wickets of that
\* innings; and no step changes or removes a summary that is stored.
C16_SummaryOncePerClosedInnings ==
  /\ [](/\ \A k \in 1..4 : k < innings => k \in DOMAIN innings_summaries
        /\ DOMAIN innings_summaries \subseteq 1..innings
        /\ innings \in DOMAIN innings_summaries => match_over)
  /\ [][\A k \in 1..4 :
          /\ (k \in DOMAIN innings_summaries)
               => /\ k \in DOMAIN innings_summaries'
                  /\ innings_summaries'[k] = innings_summaries[k]
          /\ (k \notin DOMAIN innings_summaries /\ k \in DOMAIN innings_summaries')
               => /\ k = innings
                  /\ ~match_over
                  /\ (innings' = k + 1 \/ (innings' = k /\ match_over'))
                  /\ innings_summaries'[k].runs >= runs
                  /\ innings_summaries'[k].wickets >= wickets_taken]_vars

\* C16 witness: three innings are closed, each with its summary, the first of
\* them with runs on the board.
C16_ThreeSummariesStored ==
  /\ innings = 4
  /\ ~match_over
  /\ DOMAIN innings_summaries = {1, 2, 3}
  /\ innings_summaries[1].runs > 0

\* A batter at the crease before the step is not at the crease after it.
BatterDeparts ==
  \E i \in 1..Len(current_batsmen) : ~InSeq(current_batsmen[i], current_batsmen')

WicketOutcomes == {o \in Outcomes : bowler_wicket_this_ball(o)}

\* The legal balls on which no batter is out: runs off the bat, an appeal turned
\* down, and the cards that neither dismiss nor retire a batter nor add a ball.
LegalNonWicketOutcomes ==
  {o \in Outcomes :
     \/ o.type = "Runs"
     \/ o.type = "Appeal" /\ o.appeal_result = "Not Out"
     \/ /\ o.card # 0
        /\ LOOSE_BALL_CARDS[o.card].out = ""
        /\ ~LOOSE_BALL_CARDS[o.card].retired_hurt
        /\ ~LOOSE_BALL_CARDS[o.card].extra_ball
        /\ ~LOOSE_BALL_CARDS[o.card].no_ball
        /\ ~LOOSE_BALL_CARDS[o.card].text_no_ball}

\* The number of wickets in a row the next wicket of the bowler of s would add
\* to (the test of _register_bowler_wicket_for_hattrick).
consecutive_wickets(s) ==
  IF s.last_ball_was_bowler_wicket /\ s.last_wicket_bowler = s.bowler
  THEN s.hattrick_count ELSE 0

\* The latest ball was the bowler's first wicket in a row.
OneWicketRunning ==
  /\ pc = "over"
  /\ consecutive_wickets(Self) = 1

\* The latest ball was the second wicket in a row of the bowler who is bowling:
\* it wrote the line that announces him to be on a hat-trick.
TwoWicketsRunning ==
  /\ pc = "over"
  /\ InSeq(OnAHatTrick, match_output)
  /\ last_wicket_bowler = bowler

\* The ball ended the match by taking the chasing side past its target: the
\* branch returned at its chase check.
WonTheChase(t) ==
  t.match_over /\ t.result_summary.margin_kind = "wickets"

\* C18: in an over, whichever way the next ball takes a wicket for the bowler
\* (appeal, loose-ball card on an appeal, loose-ball card drawn directly), that
\* ball writes the on-a-hat-trick line when it is his second wicket in a row and
\* the hat-trick line when it is his third; and a legal ball that takes no
\* wicket leaves no wicket in a row to count from. Balls that win the chase are
\* left aside.
C18_HatTrickCommentary ==
  LET after(o) == iteration(Self, o, Input(FALSE, 1))
      second(t) == OneWicketRunning => InSeq(OnAHatTrick, t.match_output)
      third(t) == TwoWicketsRunning => InSeq(AHatTrick, t.match_output)
      wicket(t) == WonTheChase(t) \/ (second(t) /\ third(t))
      no_wicket(t) == WonTheChase(t) \/ consecutive_wickets(t) = 0
  IN pc = "over" =>
       /\ \A o \in WicketOutcomes : wicket(after(o))
       /\ \A o \in LegalNonWicketOutcomes : no_wicket(after(o))

\* The fields after the ball on which a batter rated bat and a bowler rated bowl
\* see the dice fall as dice and dice_w.
after_dice(s, bat, bowl, dice, dice_w, card) ==
  iteration(s, simulate_ball(bat, bowl, dice, dice_w, card), Input(FALSE, 1))

\* C19 as stated: in an over, a batter rated "A" who faces a dice sum of 7
\* scores exactly 2, the 2 are added to the total and to the striker, and the
\* batters change ends on that ball.
C19_SevenScoresTwoAndRotates ==
  pc = "over" =>
    \A dw \in DiceSums, w \in BowlingRatings :
      LET striker == current_batsmen[1]
          scored(t) ==
            /\ t.runs = runs + 2
            /\ t.p_runs[striker] = p_runs[striker] + 2
            /\ t.pc = "over" => t.current_batsmen[1] = current_batsmen[2]
      IN scored(after_dice(Self, "A", w, 7, dw, 1))

\* C19 amended: in an over, a batter rated "A" who faces a dice sum of 7 scores
\* exactly 4 (the cell for 7 is "4"), the 4 are added to the total and to the
\* striker, and the batters do not change ends for them: the striker keeps the
\* strike while the over goes on, and the batters change ends only because the
\* ball completes the over.
C19_SevenScoresFourWithoutRotation ==
  pc = "over" =>
    \A dw \in DiceSums, w \in BowlingRatings :
      LET striker == current_batsmen[1]
          scored(t) ==
            /\ t.runs = runs + 4
            /\ t.p_runs[striker] = p_runs[striker] + 4
            /\ t.wickets_taken = wickets_taken
            /\ t.pc = "over" => (t.current_batsmen = current_batsmen /\ t.ball = ball + 1)
            /\ (t.pc = "idle" /\ ~t.match_over)
                 => t.current_batsmen = << current_batsmen[2], current_batsmen[1] >>
      IN /\ simulate_ball("A", w, 7, dw, 1) = RunsOutcome(4)
         /\ scored(after_dice(Self, "A", w, 7, dw, 1))

\* C19 witness: a four off the first ball of an over; the striker has the four
\* runs and faces the second ball.
C19_FourOffTheFirstBall ==
  /\ pc = "over"
  /\ ball = 1
  /\ runs = 4
  /\ extras = 0
  /\ p_runs[current_batsmen[1]] = 4

\* C20 as stated: in an over, a batter rated "A" who faces a dice sum of 2 is
\* appealed against, and a bowler rated "A" whose appeal dice sum is 5 gets the
\* answer Not Out: a legal ball, no run, no wicket.
C20_AppealDiceFiveIsNotOut ==
  pc = "over" =>
    LET not_out(t) ==
          /\ t.runs = runs
          /\ t.wickets_taken = wickets_taken
          /\ t.innings = innings
          /\ t.pc = "over" => t.ball = ball + 1
    IN /\ simulate_ball("A", "A", 2, 5, 1) = AppealOutcome("Not Out", "", 0)
       /\ not_out(after_dice(Self, "A", "A", 2, 5, 1))

\* C20 amended: in an over, a batter rated "A" who faces a dice sum of 2 is
\* appealed against, and a bowler rated "A" whose appeal dice sum is 5 gets the
\* answer Out, Caught (the cell for 5 is "Caught"): a legal ball, no run, and
\* a wicket falls, which is counted in the innings or, when it closes the
\* innings, in the summary of the innings.
C20_AppealDiceFiveIsCaught ==
  pc = "over" =>
    LET out(t) ==
          /\ t.pc = "over" => t.ball = ball + 1
          /\ IF t.innings = innings /\ ~t.match_over
             THEN t.runs = runs /\ t.wickets_taken = wickets_taken + 1
             ELSE /\ innings \in DOMAIN t.innings_summaries
                  /\ t.innings_summaries[innings].runs = runs
                  /\ t.innings_summaries[innings].wickets = wickets_taken + 1
    IN /\ simulate_ball("A", "A", 2, 5, 1) = AppealOutcome("Out", "Caught", 0)
       /\ out(after_dice(Self, "A", "A", 2, 5, 1))

\* C20 witness: a wicket off the first ball of an over, for no run.
C20_WicketOffTheFirstBall ==
  /\ pc = "over"
  /\ ball = 1
  /\ runs = 0
  /\ wickets_taken = 1
  /\ consecutive_wickets(Self) = 1

\* C21 as stated: when innings 2 closes with the side that batted first at
\* least 200 ahead, the follow-on question is put, and when the answer is no
\* the side that trailed (the side that batted innings 2) bats innings 3.
C21_DeclinedTrailingSideBatsThird ==
  [][ (innings = 2 /\ innings' = 3
       /\ first_innings_lead(Self') >= follow_on_threshold)
        => /\ follow_on_asked' = follow_on_asked + 1
           /\ ~follow_on_enforced'
                => batting_team_id(Self') = innings_batting_team[2] ]_vars

\* C21 amended: when innings 2 closes with the side that batted first at least
\* 200 ahead, the follow-on question is put, and when the answer is no the
\* side that batted first (the side that leads) bats innings 3 and the side
\* that trailed bats innings 4.
C21_DeclinedLeadingSideBatsThird ==
  /\ [][ (innings = 2 /\ innings' = 3
          /\ first_innings_lead(Self') >= follow_on_threshold)
           => /\ follow_on_asked' = follow_on_asked + 1
              /\ ~follow_on_enforced'
                   => batting_team_id(Self') = innings_batting_team[1] ]_vars
  /\ []((innings = 4 /\ ~follow_on_enforced)
          => batting_team_id(Self) = innings_batting_team[2])

\* C21 witness: the follow-on was offered on a lead of at least 200 and
\* declined, and the fourth innings has been reached.
C21_DeclinedAndFourthInnings ==
  /\ follow_on_asked = 1
  /\ ~follow_on_enforced
  /\ first_innings_lead(Self) >= follow_on_threshold
  /\ innings = 4

\* The resolver on a first dice sum of 12, for every rating (one the charts do
\* not list included), second dice sum and card: the card drawn, a record with
\* the fields start_over reads.
TwelveResolvesToTheCard ==
  \A b \in BattingRatings \cup {"?"}, w \in BowlingRatings \cup {"?"},
     dw \in DiceSums, k \in CardIds :
    LET payload == loose_ball_payload(LOOSE_BALL_CARDS[k])
    IN /\ simulate_ball(b, w, 12, dw, k) = LooseBallOutcome(k)
       /\ payload.type = "Loose Ball"
       /\ {payload.batsman_runs, payload.bowler_runs, payload.extras_runs,
           payload.score_inc} \subseteq Nat
       /\ {payload.no_ball, payload.extra_ball, payload.retired_hurt}
            \subseteq BOOLEAN

\* C22: a first dice sum of 12 resolves to a loose-ball card whatever the
\* batter's rating (a rating the batting chart does not list included), the
\* bowler's rating and the second dice sum are; the card is a record with the
\* fields start_over reads; and in an over the ball is played as that card.
C22_TwelveIsALooseBallCard ==
  /\ TwelveResolvesToTheCard
  /\ pc = "over" =>
       \A b \in {"A", "?"}, dw \in DiceSums :
         after_dice(Self, b, "?", 12, dw, 1)
           = iteration(Self, LooseBallOutcome(1), Input(FALSE, 1))

\* C22 witness: the first ball of an over was a 12 and the card drawn (a run-out
\* with two runs to the total) has been played.
C22_CardOffTheFirstBall ==
  /\ pc = "over"
  /\ ball = 1
  /\ runs = 2
  /\ wickets_taken = 1
  /\ consecutive_wickets(Self) = 0

\* The resolver for all ratings (listed in the charts or not), dice sums and
\* cards: its result is one of the well-formed outcomes; an unlisted batter
\* rating makes every sum below 12 an appeal; an unlisted bowler rating
\* answers every appeal Not Out.
ResolverWellFormed ==
  \A b \in BattingRatings \cup {"?"}, w \in BowlingRatings \cup {"?"},
     d \in DiceSums, dw \in DiceSums, k \in CardIds :
    LET o == simulate_ball(b, w, d, dw, k)
    IN /\ o \in Outcomes
       /\ (b = "?" /\ d < 12) => o.type = "Appeal"
       /\ (w = "?" /\ o.type = "Appeal") => o = AppealOutcome("Not Out", "", 0)

\* C23: for all ratings (listed in the charts or not) and all dice sums the
\* resolver returns one of: runs from {0,1,2,3,4,6}; an appeal answered Not Out,
\* Out with a method, No Ball, or Loose Ball with a card; a loose-ball card.
\* A batter rating the chart does not list makes every sum below 12 an appeal,
\* and a bowler rating the chart does not list answers every appeal Not Out, so
\* that in an over, with both ratings unlisted, every ball below 12 is played
\* as an appeal turned down.
C23_ResolverIsTotalAndWellFormed ==
  /\ ResolverWellFormed
  /\ pc = "over" =>
       \A d \in 2..11 :
         after_dice(Self, "?", "?", d, 2, 1)
           = iteration(Self, AppealOutcome("Not Out", "", 0), Input(FALSE, 1))

\* C23 witness: the first ball of an over was appealed and called a no-ball,
\* the answer the chart gives a bowler rated "A" on a dice sum of 2 whoever
\* the batter is.
C23_AppealNoBallOffTheFirstBall ==
  /\ pc = "over"
  /\ ball = 0
  /\ runs = 1
  /\ extras_nb = 1
  /\ simulate_ball("?", "A", 2, 2, 1) = AppealOutcome("No Ball", "", 0)

\* C24: on every day the scheduled overs are max(0, 16 - overs lost at the
\* start - overs lost at the end), 0 on a no-play day and never more than 16,
\* whichever card of the deck a new day draws; an over is in progress only on a
\* day with overs left, and on a day with 0 scheduled overs no over is accepted.
C24_ScheduledOversOfTheDay ==
  /\ [](LET scheduled(t) ==
              /\ t.day_overs_scheduled
                   = Max(0, DAY_OVERS - t.day_overs_lost_start - t.day_overs_lost_end)
              /\ t.day_no_play => t.day_overs_scheduled = 0
              /\ t.day_overs_scheduled \in 0..DAY_OVERS
        IN /\ scheduled(Self)
           /\ day_counter <= MAX_DAYS =>
                \A k \in DOMAIN MATCH_CONDITION_TEMPLATES :
                  scheduled(start_new_day(Self, MATCH_CONDITION_TEMPLATES[k])))
  /\ [](pc = "over" => overs_in_day < day_overs_scheduled)
  /\ [][ day_overs_scheduled = 0 =>
           /\ pc' = "idle"
           /\ over_log'.count = over_log.count ]_vars

\* C24 witness: after a day of play, the second day has drawn a no-play card
\* and has no over scheduled.
C24_NoPlayOnTheSecondDay ==
  /\ current_day = 2
  /\ day_no_play
  /\ day_overs_scheduled = 0
  /\ over_log.count > 0
  /\ ~match_over

\* C25: when a day begins, every batter of the batting side in the pending
\* queue moves to the returning queue and the priority flag is set; while the
\* flag is set, the batter who fills a vacancy (after a dismissal or a
\* retirement) is the head of the returning queue and no unused batter is
\* taken; the flag is set only while the returning queue is non-empty, and is
\* cleared by the return that empties it.
C25_ReturnersBeforeUnusedBatters ==
  /\ [][ (NewDayCalled /\ day_counter <= MAX_DAYS) =>
           LET bat == Members(batting_team_id(Self))
               movers == {p \in bat : InSeq(p, retired_hurt_pending)}
           IN /\ \A p \in movers : /\ InSeq(p, retired_hurt_returning')
                                   /\ ~InSeq(p, retired_hurt_pending')
              /\ movers # {} => retired_hurt_priority' ]_vars
  /\ [](retired_hurt_priority => retired_hurt_returning # << >>)
  /\ [](\A p \in Player : ~(InSeq(p, retired_hurt_pending)
                             /\ InSeq(p, retired_hurt_returning)))
  /\ []((pc = "over" /\ retired_hurt_priority) =>
          \A o \in {AppealOutcome("Out", "Bowled", 0), LooseBallOutcome(10)} :
            LET t == iteration(Self, o, Input(FALSE, 1))
            IN (t.innings = innings /\ ~t.match_over) =>
                 /\ InSeq(Head(retired_hurt_returning), t.current_batsmen)
                 /\ t.retired_hurt_returning = Tail(retired_hurt_returning)
                 /\ t.next_batsman_index = next_batsman_index
                 /\ t.retired_hurt_priority = (t.retired_hurt_returning # << >>))

\* C25 witness: on the second day of the first innings the returning queue has
\* been emptied and priority cleared: a batter who came in after the openers is
\* at the crease although a batter who came in after them has since retired.
C25_ReturnedOnTheSecondDay ==
  /\ innings = 1
  /\ current_day = 2
  /\ retired_hurt_returning = << >>
  /\ ~retired_hurt_priority
  /\ \E i \in DOMAIN current_batsmen, p \in Player :
       /\ InSeq(p, retired_hurt_pending)
       /\ current_batsmen[i][1] = p[1]
       /\ current_batsmen[i][2] > 2
       /\ current_batsmen[i][2] < p[2]

\* C27 as stated: the log holds wickets 1..k in order with k the wickets taken,
\* and a ball that takes a wicket appends one entry: the wicket's number and
\* the team's runs before that ball; a ball without a wicket appends nothing.
C27_FallLoggedAtRunsBeforeTheBall ==
  /\ Len(fow) = wickets_taken
  /\ \A i \in 1..Len(fow) : fow[i][1] = i
  /\ pc = "over" =>
       \A o \in Outcomes :
         LET t == iteration(Self, o, Input(FALSE, 1))
         IN t.innings = innings =>
              /\ t.wickets_taken = wickets_taken + 1
                   => t.fow = Append(fow, << wickets_taken + 1, runs >>)
              /\ t.wickets_taken = wickets_taken => t.fow = fow

\* C27 amended: the log holds wickets 1..k in order with k the wickets taken,
\* and a ball that takes a wicket appends one entry: the wicket's number and
\* the team's runs after that ball's own runs were added; a ball without a
\* wicket appends nothing.
C27_FallLoggedAtRunsWithTheBall ==
  /\ Len(fow) = wickets_taken
  /\ \A i \in 1..Len(fow) : fow[i][1] = i
  /\ pc = "over" =>
       \A o \in Outcomes :
         LET t == iteration(Self, o, Input(FALSE, 1))
         IN t.innings = innings =>
              /\ t.wickets_taken = wickets_taken + 1
                   => t.fow = Append(fow, << wickets_taken + 1, t.runs >>)
              /\ t.wickets_taken = wickets_taken => t.fow = fow

\* C27 witness: the second wicket was a run-out on a ball that scored two, and
\* stands in the log at 2.
C27_SecondWicketAtTwo ==
  /\ wickets_taken = 2
  /\ runs = 2
  /\ fow = << << 1, 0 >>, << 2, 2 >> >>

\* C28 as stated: in an over, a ball called a no-ball on appeal adds 1 to the
\* team total, 1 to the extras and 1 to the no-ball extras, changes no batter's
\* runs and no wicket count and does not advance the over's legal balls, also
\* when the run it adds wins the match. (The bowler's conceded runs are no
\* field of the model.)
C28_NoBallCountsOneEverywhere ==
  pc = "over" =>
    LET t == iteration(Self, AppealOutcome("No Ball", "", 0), Input(FALSE, 1))
    IN /\ t.runs = runs + 1
       /\ t.extras = extras + 1
       /\ t.extras_nb = extras_nb + 1
       /\ t.p_runs = p_runs
       /\ t.wickets_taken = wickets_taken
       /\ t.current_over_legal_balls = current_over_legal_balls
       /\ t.ball = ball \/ t.match_over

\* C29 as stated: the step that opens an innings leaves the pending queue and
\* the returning queue empty and the priority flag clear; every batter at the
\* crease belongs to the side batting the innings, and the two batters at the
\* crease are two players.
C29_NoRetiredHurtAcrossInnings ==
  /\ [][ innings' # innings =>
           /\ retired_hurt_pending' = << >>
           /\ retired_hurt_returning' = << >>
           /\ ~retired_hurt_priority' ]_vars
  /\ [](\A i \in DOMAIN current_batsmen :
          TeamOf(current_batsmen[i]) = batting_team_id(Self))
  /\ [](Len(current_batsmen) = 2 => current_batsmen[1] # current_batsmen[2])

\* C30: in an over, a ball that takes a wicket adds one to the bowler's tally
\* if and only if the method is Bowled, LBW, Caught, Caught WK or Stumped WK; a
\* run-out adds nothing to it, and no ball changes another player's tally or
\* changes a tally without a wicket. So the tallies of the bowling side sum to
\* the wickets taken less the run-outs: here every run-out adds two runs and
\* nothing else adds a run, so that the run-outs of the innings are runs / 2.
C30_BowlerCreditedUnlessRunOut ==
  /\ ~match_over =>
       SumSeq([i \in 1..TeamSize |-> p_wickets[team(bowling_team_id(Self))[i]]])
         = wickets_taken - (runs \div 2)
  /\ pc = "over" =>
       \A o \in Outcomes :
         LET t == iteration(Self, o, Input(FALSE, 1))
             method == IF o.type = "Appeal" /\ o.appeal_result = "Out" THEN o.method
                       ELSE IF o.card # 0 THEN LOOSE_BALL_CARDS[o.card].method
                       ELSE ""
             credit == IF t.wickets_taken = wickets_taken + 1
                          /\ method \in {"Bowled", "LBW", "Caught", "Caught WK",
                                         "Stumped WK"}
                       THEN 1 ELSE 0
         IN t.innings = innings =>
              /\ t.p_wickets = [p_wickets EXCEPT ![bowler] = p_wickets[bowler] + credit]
              /\ method = "Run Out" => t.p_wickets = p_wickets

\* C30 witness: two wickets are down in an over, one of them a run-out, and
\* the bowler has one wicket to his name.
C30_OneOfTwoIsTheBowlers ==
  /\ pc = "over"
  /\ wickets_taken = 2
  /\ runs = 2
  /\ p_wickets[bowler] = 1
  /\ SumSeq([i \in 1..TeamSize |-> p_wickets[team(bowling_team_id(Self))[i]]]) = 1

\* C26 as stated: chunks are replayed only when no over is being simulated; a
\* simulate-over request made while the replay is on returns with everything
\* as it was; and from the moment start_over has returned until the replay's
\* last call no step changes a field of the match, so that the match at the
\* end of the replay is the match at its beginning.
C26_PlaybackLeavesTheMatchAlone ==
  /\ [](playback_idx > 0 => (pc = "idle" /\ ball_by_ball_playing))
  /\ [](ball_by_ball_playing =>
          \A name \in Player \cup {NoPlayer}, card \in CardIds, enabled \in BOOLEAN :
            simulate_over(Self, name, Input(FALSE, card), enabled) = Self)
  /\ [][ (ball_by_ball_playing /\ pc = "idle") =>
           [Self' EXCEPT !.ball_by_ball_playing = FALSE, !.playback_idx = 0]
             = [Self EXCEPT !.ball_by_ball_playing = FALSE, !.playback_idx = 0] ]_vars

\* C31 as stated: in an over with two batters in, a loose-ball card that flags
\* a dismissal, drawn directly or on an appeal, and that ends neither the
\* innings nor the match, costs one wicket; the batter who leaves is the flagged
\* one, or the non-striker when a run-out card flagged for the striker names the
\* bowler's end; the other batter stays, and the next batter comes in.
C31_CardDismissesTheFlaggedBatter ==
  (pc = "over" /\ Len(current_batsmen) = 2) =>
    \A k \in CardIds :
      \A o \in {LooseBallOutcome(k), AppealOutcome("Loose Ball", "", k)} :
        LET c == LOOSE_BALL_CARDS[k]
            t == iteration(Self, o, Input(FALSE, 1))
            target == IF c.method = "Run Out" /\ c.text_bowler THEN 2
                      ELSE IF c.out = "striker" THEN 1 ELSE 2
            leaves == current_batsmen[target]
            stays == current_batsmen[3 - target]
        IN (/\ c.out \in {"striker", "non-striker"}
            /\ ~c.retired_hurt
            /\ t.innings = innings
            /\ ~t.match_over)
           => /\ t.wickets_taken = wickets_taken + 1
              /\ ~InSeq(leaves, t.current_batsmen)
              /\ InSeq(stays, t.current_batsmen)
              /\ next_batsman(Self) # NoPlayer
                   => InSeq(next_batsman(Self), t.current_batsmen)

\* C32: the legal-ball counter of the over stays within 0..6 and below 6 while
\* the over is being bowled; a delivery after which the over goes on or is
\* completed is illegal exactly when it is a no-ball on an appeal or a loose-ball
\* card, drawn directly or on an appeal, flagged extra_ball or no_ball; the
\* counter goes up by one on a legal delivery and stays on an illegal one, and
\* the delivery that completes the over is legal and is its sixth.
C32_SixLegalBallsAnOver ==
  /\ current_over_legal_balls \in 0..BallsPerOver
  /\ pc = "over" =>
       /\ ball = current_over_legal_balls
       /\ ball < BallsPerOver
       /\ \A o \in Outcomes :
            LET r == ball_outcome([Self EXCEPT !.match_output = << >>], o, FALSE)
                t == iteration(Self, o, Input(FALSE, 1))
                illegal ==
                  \/ o.type = "Appeal" /\ o.appeal_result = "No Ball"
                  \/ /\ o.card \in CardIds
                     /\ \/ LOOSE_BALL_CARDS[o.card].extra_ball
                        \/ LOOSE_BALL_CARDS[o.card].no_ball
            IN ~r.returned =>
                 /\ r.legal = ~illegal
                 /\ t.pc = "over" =>
                      /\ t.ball = IF illegal THEN ball ELSE ball + 1
                      /\ t.current_over_legal_balls = t.ball
                 /\ t.pc = "idle" =>
                      /\ ~illegal
                      /\ ball + 1 = BallsPerOver
                      /\ t.innings = innings => t.current_over_legal_balls = BallsPerOver

\* C32 witness: an over of six legal balls and a no-ball has been completed.
C32_SixBallsAndANoBall ==
  /\ pc = "idle"
  /\ overs_completed = 1
  /\ current_over_legal_balls = BallsPerOver
  /\ extras_nb = 1

\* C33: when an over is completed and brings the overs of the session to 8
\* while overs of the day remain, the session number goes up by one, the overs
\* of the session return to 0, the session count of every player of the bowling
\* side is 0 and no last bowler is recorded; when the over is also the last of
\* the day, the code that counts the over leaves the session number alone, and
\* an over that does not bring the session to 8 adds one to its overs.
C33_SessionBreakAfterEightOvers ==
  /\ [](pc = "over" =>
          LET b == session_break(record_over(Self)) IN
          /\ b.overs_in_day >= b.day_overs_scheduled =>
               /\ b.session_number = session_number
               /\ b.session_overs_completed = session_overs_completed + 1
          /\ session_overs_completed + 1 < overs_per_session =>
               /\ b.session_number = session_number
               /\ b.session_overs_completed = session_overs_completed + 1)
  /\ [][ (/\ pc = "over" /\ pc' = "idle"
          /\ innings' = innings
          /\ session_overs_completed + 1 = overs_per_session
          /\ overs_in_day + 1 < day_overs_scheduled)
         => /\ session_number' = session_number + 1
            /\ session_overs_completed' = 0
            /\ \A p \in Members(bowling_team_id(Self)) : bowler_overs_session'[p] = 0
            /\ last_bowler' = NoPlayer
            /\ current_day' = current_day ]_vars
  /\ [][ (/\ pc = "over" /\ pc' = "idle"
          /\ session_overs_completed + 1 = overs_per_session
          /\ overs_in_day + 1 >= day_overs_scheduled)
         => /\ session_number' # session_number + 1
            /\ current_day' = current_day + 1 ]_vars

\* C33 witness: the second session of a day has begun after eight overs.
C33_SecondSessionOfTheDay ==
  /\ pc = "idle"
  /\ session_number = 2
  /\ session_overs_completed = 0
  /\ overs_in_day = overs_per_session
  /\ last_bowler = NoPlayer
  /\ over_log.count = overs_per_session

\* C34 as stated: in an over, a ball that takes the striker's runs of the
\* innings across 50, 100, 150, 200, 300 or 400, or beyond 400, writes the
\* commentary of that milestone, in every innings the batter plays; a ball that
\* crosses none writes no milestone.
C34_MilestoneOnEveryCrossing ==
  pc = "over" =>
    \A o \in Outcomes :
      LET striker == current_batsmen[1]
          gain == IF o.type = "Runs" THEN o.runs
                  ELSE IF o.card \in CardIds THEN LOOSE_BALL_CARDS[o.card].batsman_runs
                  ELSE 0
          before == p_runs[striker]
          crossed == {i \in 1..Len(MILESTONES) :
                        before < MILESTONES[i].at /\ MILESTONES[i].at <= before + gain}
          beyond == before <= 400 /\ before + gain > 400
          t == iteration(Self, o, Input(FALSE, 1))
      IN /\ \A i \in crossed : t.milestone_said = MILESTONES[i].text
         /\ (crossed = {} /\ beyond) => t.milestone_said = Over400
         /\ (crossed = {} /\ ~beyond) => t.milestone_said = ""

\* C35 as stated: a rating of the scale moves by the modifier and stops at the
\* ends of the scale, a modifier of -1 making it worse (B becomes C, G stays G)
\* and +1 making it better (C becomes B, A stays A); a rating outside the scale
\* comes back unchanged; and in an over the striker's rating is adjusted that way
\* by the batting modifier of the over.
C35_MinusOneMakesTheRatingWorse ==
  LET n == Len(RATINGS_ORDER)
      worse_by(i, m) == IF i - m < 1 THEN 1 ELSE IF i - m > n THEN n ELSE i - m
  IN /\ \A i \in 1..n : \A m \in (0 - n)..n :
          apply_rating_modifier(RATINGS_ORDER[i], m) = RATINGS_ORDER[worse_by(i, m)]
     /\ apply_rating_modifier("B", -1) = "C"
     /\ apply_rating_modifier("C", 1) = "B"
     /\ \A m \in (0 - n)..n : \A r \in {"", "H", "a"} : apply_rating_modifier(r, m) = r
     /\ pc = "over" =>
          \A i \in 1..n :
            apply_rating_modifier(RATINGS_ORDER[i],
                                  current_condition_modifiers_for_over(Self)[1])
              = RATINGS_ORDER[worse_by(i, current_condition_modifiers_for_over(Self)[1])]

\* C36 as stated: every step that finishes an over without ending the match,
\* on its sixth legal ball or because the innings ended in mid-over, adds one to
\* the overs bowled in the day (when the day goes on) and to the overs of the
\* session (when the session goes on); when the innings goes on as well, it adds
\* one to the overs of the innings and to the bowler's counts of the session and
\* of the day.
C36_EveryStartedOverIsCounted ==
  [][ (pc = "over" /\ pc' = "idle" /\ ~match_over') =>
        /\ current_day' = current_day => overs_in_day' = overs_in_day + 1
        /\ (current_day' = current_day /\ session_number' = session_number)
             => session_overs_completed' = session_overs_completed + 1
        /\ innings' = innings =>
             /\ overs_completed' = overs_completed + 1
             /\ current_day' = current_day =>
                  bowler_overs_today'[bowler] = bowler_overs_today[bowler] + 1
             /\ (current_day' = current_day /\ session_number' = session_number)
                  => bowler_overs_session'[bowler] = bowler_overs_session[bowler] + 1 ]_vars

\* C37: when the sixth legal ball of an over leaves two batters in and the
\* innings goes on, the batters change ends after it: the striker of the next
\* over is the batter who was non-striker after that ball, so that odd runs off
\* the last ball leave the same batter on strike and even runs or a dot ball
\* bring the other one on strike; a ball that is not the over's last brings no
\* such change.
C37_StrikeRotatesAtEndOfOver ==
  pc = "over" =>
    \A o \in Outcomes :
      LET r == ball_outcome([Self EXCEPT !.match_output = << >>, !.milestone_said = ""],
                            o, FALSE)
          t == iteration(Self, o, Input(FALSE, 1))
          after_ball == r.s.current_batsmen
      IN (~r.returned /\ Len(after_ball) = 2 /\ t.innings = innings) =>
           /\ t.pc = "idle" =>
                /\ t.current_batsmen = << after_ball[2], after_ball[1] >>
                /\ (o.type = "Runs" /\ o.runs % 2 = 1) => t.current_batsmen = current_batsmen
                /\ (o.type = "Runs" /\ o.runs % 2 = 0) =>
                     t.current_batsmen = << current_batsmen[2], current_batsmen[1] >>
           /\ t.pc = "over" => t.current_batsmen = after_ball

\* C37 witness: after an over of six dot balls the second opener is on strike.
C37_NonStrikerFacesTheNextOver ==
  /\ pc = "idle"
  /\ overs_completed = 1
  /\ runs = 0
  /\ wickets_taken = 0
  /\ retired_hurt_pending = << >>
  /\ current_batsmen = << <<1, 2>>, <<1, 1>> >>

\* C38: in every state, and for every card the next day may draw and however
\* many overs have been bowled in that day, the modifiers of the over about to
\* be bowled are the bat and bowl values of the first phase of the card whose
\* range start..end holds overs_in_day + 1, and << 0, 0 >> when no phase holds
\* it or the day has no play; a card has no phases exactly when it allows no
\* play.
C38_ModifiersOfTheFirstPhaseInRange ==
  LET holds(ph, n) == ph.start <= n /\ n <= ph.end
      as_claimed(s) ==
        LET n == s.overs_in_day + 1
            phases == s.current_conditions.phases
            m == current_condition_modifiers_for_over(s)
        IN IF s.day_no_play \/ \A i \in 1..Len(phases) : ~holds(phases[i], n)
           THEN m = << 0, 0 >>
           ELSE \E i \in 1..Len(phases) :
                  /\ holds(phases[i], n)
                  /\ \A j \in 1..(i - 1) : ~holds(phases[j], n)
                  /\ m = << phases[i].bat, phases[i].bowl >>
  IN /\ as_claimed(Self)
     /\ current_conditions.phases = << >> <=> day_no_play
     /\ (pc = "idle" /\ day_is_over(Self)) =>
          \A k \in DOMAIN MATCH_CONDITION_TEMPLATES : \A done \in 0..DAY_OVERS :
            as_claimed([start_new_day(Self, MATCH_CONDITION_TEMPLATES[k])
                          EXCEPT !.overs_in_day = done])

\* C38 witness: in the ninth over of a day whose card reduces the batters'
\* ratings from the ninth over on, the batting modifier is -1.
C38_SecondPhaseInTheNinthOver ==
  /\ pc = "over"
  /\ overs_in_day = 8
  /\ Len(current_conditions.phases) = 2
  /\ current_condition_modifiers_for_over(Self) = << -1, 0 >>

\* C40: in every state the match is over exactly when a result is recorded, and
\* a recorded result is a draw, a tie, or a win of side 1 or side 2 by a number
\* of wickets, by a number of runs or by an innings and a number of runs.
C40_ResultExactlyWhenOver ==
  /\ match_over <=> result_summary # NoResult
  /\ result_summary.type \in {"none", "draw", "tie", "win"}
  /\ result_summary.type = "draw" => result_summary = Draw
  /\ result_summary.type = "tie" => result_summary = Tie
  /\ result_summary.type = "win" =>
       /\ result_summary.winner \in Teams
       /\ result_summary.margin_kind \in {"wickets", "runs", "innings"}
       /\ result_summary.margin \in Nat

\* C40 witness: the side batting last has lost by runs, all four innings closed.
C40_LostTheChaseByRuns ==
  /\ match_over
  /\ result_summary.type = "win"
  /\ result_summary.margin_kind = "runs"
  /\ result_summary.winner # Get(innings_batting_team, 4, 2)
  /\ Cardinality(DOMAIN innings_summaries) = 4

====
